---- MODULE Spec2Model ----
(***************************************************************************)
(* Tour generation pipeline of walkumentary (app/services).                *)
(*                                                                         *)
(* One tour is followed from its creation by TourService.generate_tour     *)
(* through its background execution _generate_tour_content_background,     *)
(* together with the content generator AIService.generate_tour_content,    *)
(* the shared content cache, the per-tour audio cache entry and the        *)
(* owner's delete_tour.  Other tours reach this one only through the       *)
(* shared content cache (action OtherGenerationCachesContent).             *)
(*                                                                         *)
(* Strings are abstracted to what the code looks at: a provider response   *)
(* is a sequence of lexical tokens that a small JSON recogniser parses; a  *)
(* title or content value is one of "text" (at most 4000 characters, not   *)
(* all whitespace), "long" (more than 4000 characters), "blank" (only      *)
(* whitespace), "empty" ("") or "null" (JSON null); an error message is a  *)
(* sequence of message tokens.                                             *)
(***************************************************************************)
EXTENDS Integers, Sequences, FiniteSets, TLC

(***************************************************************************)
(* Bounds of the model.                                                    *)
(***************************************************************************)
\* largest number of persistence (database) failures injected in one run
MaxDbFailures == 2
\* largest number of entries of walkable_stops in a provider response
MaxStops == 2

(***************************************************************************)
(* Providers (app/config.py LLMProvider) and the fallback choice.          *)
(***************************************************************************)
LLMProvider == {"openai", "anthropic"}

FallbackOf(provider) ==
    IF provider = "openai" THEN "anthropic" ELSE "openai"

ProviderModel(provider) ==
    IF provider = "openai" THEN "gpt-4o-mini" ELSE "claude-3-haiku"

(***************************************************************************)
(* Provider response texts.  Tokens:                                       *)
(*   "{" "}" "[" "]"   JSON punctuation                                    *)
(*   "x"               prose or markdown that is not JSON                  *)
(*   "n"               a JSON scalar (number, string literal)              *)
(*   "Tt" "Te" "Tn"    member "title": text / "" / null                    *)
(*   "Ct" "Cl" "Ce" "Cn"  member "content": text / long text / "" / null   *)
(*   "Cb"              member "content": whitespace only                   *)
(*   "W0" "W1" "W2" .. member "walkable_stops": array of that many stops   *)
(*   "D"               some other member ("difficulty_level": ...)         *)
(***************************************************************************)
TitleTok == {"Tt", "Te", "Tn"}
ContentTok == {"Ct", "Cl", "Ce", "Cn", "Cb"}
StopsTok == {"W0", "W1", "W2", "W3"}
MemberTok == TitleTok \cup ContentTok \cup StopsTok \cup {"D"}

TitleValue(tok) ==
    CASE tok = "Tt" -> "text" [] tok = "Te" -> "empty" [] OTHER -> "null"

ContentValue(tok) ==
    CASE tok = "Ct" -> "text" [] tok = "Cl" -> "long"
      [] tok = "Ce" -> "empty" [] tok = "Cb" -> "blank" [] OTHER -> "null"

StopsValue(tok) ==
    CASE tok = "W0" -> 0 [] tok = "W1" -> 1 [] tok = "W2" -> 2 [] OTHER -> 3

\* the token for a walkable_stops array of n entries
StopsTokOf(n) ==
    CASE n = 0 -> "W0" [] n = 1 -> "W1" [] n = 2 -> "W2" [] OTHER -> "W3"

\* str.find / str.rfind, 1-based, 0 when the token does not occur
Find(s, tok) ==
    IF \E i \in 1..Len(s) : s[i] = tok
    THEN CHOOSE i \in 1..Len(s) : s[i] = tok /\ \A j \in 1..(i-1) : s[j] # tok
    ELSE 0

RFind(s, tok) ==
    IF \E i \in 1..Len(s) : s[i] = tok
    THEN CHOOSE i \in 1..Len(s) : s[i] = tok /\ \A j \in (i+1)..Len(s) : s[j] # tok
    ELSE 0

\* the text is one JSON object: "{" members "}"
IsObjectText(s) ==
    /\ Len(s) >= 2
    /\ s[1] = "{"
    /\ s[Len(s)] = "}"
    /\ \A i \in 2..(Len(s)-1) : s[i] \in MemberTok

\* the text is a JSON array holding nothing or one object
IsArrayText(s) ==
    /\ Len(s) >= 2
    /\ s[1] = "["
    /\ s[Len(s)] = "]"
    /\ \/ Len(s) = 2
       \/ IsObjectText(SubSeq(s, 2, Len(s)-1))

\* json.loads(s) returns (does not raise JSONDecodeError)
JsonLoadsOk(s) == IsObjectText(s) \/ IsArrayText(s) \/ s = <<"n">>

\* index of the last member of the object text whose token is in toks, 0 if none
\* (json.loads keeps the last of duplicate keys)
LastMember(s, toks) ==
    IF \E i \in 1..Len(s) : s[i] \in toks
    THEN CHOOSE i \in 1..Len(s) : s[i] \in toks /\ \A j \in (i+1)..Len(s) : s[j] \notin toks
    ELSE 0

HasKey(s, toks) == LastMember(s, toks) # 0

\* the dict json.loads builds from an object text that has title and content
DictOf(s) ==
    [title   |-> TitleValue(s[LastMember(s, TitleTok)]),
     content |-> ContentValue(s[LastMember(s, ContentTok)]),
     walkable_stops |-> IF HasKey(s, StopsTok) THEN StopsValue(s[LastMember(s, StopsTok)]) ELSE 0]

ParseFailed == [ok |-> FALSE,
                data |-> [title |-> "none", content |-> "none", walkable_stops |-> 0]]

\* AIService._parse_tour_response: ok = FALSE stands for the ValueError
ParseTourResponse_SpanUnchecked(content) ==
    IF JsonLoadsOk(content)
    THEN IF ~IsObjectText(content)
         THEN ParseFailed
         ELSE IF ~HasKey(content, TitleTok) \/ ~HasKey(content, ContentTok)
              THEN ParseFailed
              ELSE [ok |-> TRUE, data |-> DictOf(content)]
    ELSE LET start == Find(content, "{")
             end == RFind(content, "}")
             span == SubSeq(content, start, end)
         IN IF start # 0 /\ end >= start /\ IsObjectText(span)
            THEN [ok |-> TRUE,
                  data |-> [title |-> IF HasKey(span, TitleTok)
                                      THEN TitleValue(span[LastMember(span, TitleTok)])
                                      ELSE "empty",
                            content |-> IF HasKey(span, ContentTok)
                                        THEN ContentValue(span[LastMember(span, ContentTok)])
                                        ELSE "empty",
                            walkable_stops |-> 0]]
            ELSE ParseFailed

ParseTourResponse(content) ==
    IF JsonLoadsOk(content)
    THEN IF ~IsObjectText(content)
         THEN ParseFailed
         ELSE IF ~HasKey(content, TitleTok) \/ ~HasKey(content, ContentTok)
              THEN ParseFailed
              ELSE [ok |-> TRUE, data |-> DictOf(content)]
    ELSE LET start == Find(content, "{")
             end == RFind(content, "}")
             span == SubSeq(content, start, end)
         IN IF start # 0 /\ end >= start
            THEN IF IsObjectText(span) /\ HasKey(span, TitleTok) /\ HasKey(span, ContentTok)
                 THEN [ok |-> TRUE, data |-> DictOf(span)]
                 ELSE ParseFailed
            ELSE ParseFailed

\* the response texts the providers are modelled to return
ProviderTexts ==
    { <<"{", "Tt", "Ct", StopsTokOf(n), "D", "}">> : n \in 0..MaxStops } \cup
    { <<"{", "Tt", "Cl", "}">>,
      <<"x", "{", "Tt", "Ct", "W1", "}", "x">>,
      <<"{", "Te", "Ce", "}">>,
      <<"{", "Tt", "Cb", "}">>,
      <<"{", "Tt", "Cn", "}">>,
      <<"{", "Tn", "Ct", "}">>,
      <<"{", "Tt", "D", "}">>,
      <<"x", "{", "Tt", "D", "}">>,
      <<"x">>,
      <<"[", "{", "Tt", "Ct", "}", "]">>,
      <<"}", "x", "{">>,
      <<"x", "{", "Ct", "}", "x", "{", "Tt", "}">> }

\* what a provider call does: raise an API error or return a text
ApiErrors == {"ApiError"}
ProviderOutcomes ==
    [raised : {TRUE}, err : ApiErrors, text : {<<>>}] \cup
    [raised : {FALSE}, err : {"none"}, text : ProviderTexts]

(***************************************************************************)
(* Error messages, as sequences of message tokens.                         *)
(***************************************************************************)
Contains(msg, sub) ==
    \E i \in 0..(Len(msg) - Len(sub)) : SubSeq(msg, i+1, i+Len(sub)) = sub

\* AIProviderError(f"Provider {provider} failed: {str(e)}")
ProviderErrorMessage(provider, e) == <<"Provider", provider, "failed:">> \o e

\* ContentGenerationError(f"... both providers: {provider} ({e}), {fallback} ({fallback_error})")
BothFailedMessage_DropFirst(provider, e, fallback_provider, fallback_error) ==
    <<"Failed to generate content with both providers:", fallback_provider, "(">>
        \o fallback_error \o <<")">>

BothFailedMessage(provider, e, fallback_provider, fallback_error) ==
    <<"Failed to generate content with both providers:", provider, "(">> \o e
        \o <<"),", fallback_provider, "(">> \o fallback_error \o <<")">>

(***************************************************************************)
(* Content results.                                                        *)
(***************************************************************************)
NoMetadata ==
    [actual_provider |-> "none", model |-> "none",
     fallback_used |-> FALSE, original_provider |-> "none"]

NoData == [title |-> "none", content |-> "none", walkable_stops |-> 0,
           metadata |-> NoMetadata]

\* the metadata _generate_tour_content_with_provider attaches
ProviderMetadata(provider) ==
    [actual_provider |-> provider, model |-> ProviderModel(provider),
     fallback_used |-> FALSE, original_provider |-> "none"]

\* the tags generate_tour_content sets after a successful fallback
FallbackMetadata_Untagged(md, provider, fallback_provider) == md

FallbackMetadata(md, provider, fallback_provider) ==
    [md EXCEPT !.fallback_used = TRUE,
               !.original_provider = provider,
               !.actual_provider = fallback_provider]

\* AIService._generate_tour_content_with_provider, given what the provider did
GenerateTourContentWithProvider(provider, outcome) ==
    IF outcome.raised
    THEN [ok |-> FALSE, data |-> NoData,
          err |-> ProviderErrorMessage(provider, <<outcome.err>>)]
    ELSE LET parsed == ParseTourResponse(outcome.text)
         IN IF parsed.ok
            THEN [ok |-> TRUE,
                  data |-> [title |-> parsed.data.title,
                            content |-> parsed.data.content,
                            walkable_stops |-> parsed.data.walkable_stops,
                            metadata |-> ProviderMetadata(provider)],
                  err |-> <<>>]
            ELSE [ok |-> FALSE, data |-> NoData,
                  err |-> ProviderErrorMessage(provider, <<"ValueError">>)]

\* AIService._estimate_tokens raises TypeError on len(content + title) with a null
EstimateTokensRaises(data) == data.title = "null" \/ data.content = "null"

(***************************************************************************)
(* State.                                                                  *)
(***************************************************************************)
VARIABLES
    preferred,           \* settings.DEFAULT_LLM_PROVIDER
    contentCache,        \* cache entry under the request's content cache key
    audioCache,          \* cache entry "audio:tour:{tour_id}" exists
    dbTour,              \* the tour's row in table tours
    pc,                  \* position of the background execution
    content,             \* generate_tour_content: local content
    primaryError,        \* generate_tour_content: str(e) of the primary failure
    fallbackError,       \* generate_tour_content: str(fallback_error)
    content_data,        \* _generate_tour_content_background: content_data
    stopIndex,           \* _process_walkable_tour_content: loop index i
    geocoded_stops,      \* geocoded_stops: the resolved stops, each named by
                         \* its position in the provider's walkable_stops
    audio_data,          \* "none" (None), "empty" (b"") or "bytes"
    audio_url,           \* local audio_url: "none" or "url"
    transcript_segments, \* "none", "empty_list" or "segments"
    providerCalls,       \* provider calls of this generate_tour_content call,
                         \* each with what the provider did
    aiResult,            \* how generate_tour_content ended
    aiError,             \* message of the exception it raised
    geocodeCalls,        \* number of _geocode_stop calls
    ttsCalls,            \* number of generate_audio calls
    ttsResult,           \* how the synthesis stage ended
    stopStage,           \* how the feasibility check and the save of the
                         \* stops ended
    deletePc,            \* position of a running delete_tour call
    statusLog,           \* status values committed for the tour, in order
    dbFailures,          \* persistence failures injected so far
    dbFailed,            \* a persistence operation of the execution raised
    deleted,             \* delete_tour removed the row
    cachedBeforeDelete   \* the audio entry was cached when the last
                         \* delete_tour call began

\* State of the component specifications further down (content generator under
\* concurrent calls); the pipeline specification leaves it alone.
VARIABLES
    store,               \* content cache: cache key -> entry
    calls,               \* the generate_tour_content calls, by call number
    generated,           \* provider responses accepted so far (the clock of
                         \* metadata.generation_timestamp)
    otherWrites          \* results stored by concurrent calls so far

\* State of the cache key specification.
VARIABLES
    keyRequests,         \* the two requests whose keys are compared
    keyResults,          \* their cache keys
    keysComputed,        \* the keys have been computed
    keyPrompts           \* the prompts built for the two requests

\* State of the text chunking specification (_chunk_text_for_tts).
VARIABLES
    chunkText,           \* argument text, a sequence of characters
    max_chunk_size,      \* argument max_chunk_size
    remaining_text,      \* local remaining_text
    chunks,              \* local chunks
    chunkPc,             \* position in _chunk_text_for_tts
    chunkResult          \* the list returned

\* State of the stop processing specification (_process_walkable_tour_content
\* and the saving of its result).
VARIABLES
    main_location,       \* argument location: the tour's anchor
    walkable_stops,      \* content_data["walkable_stops"]
    valid_stops,         \* local valid_stops, as positions in walkable_stops
    stopI,               \* loop index over valid_stops
    resolved_stops,      \* local geocoded_stops
    stopsPc,             \* position in _process_walkable_tour_content
    returned_stops,      \* the list returned
    persisted_stops,     \* tours.walkable_stops
    geocodeLog,          \* per candidate stop, what its geocoding did
    feasibility          \* result of the feasibility check on the route

\* State of the route feasibility specification (_validate_walking_feasibility).
VARIABLES
    route_locations,     \* argument route_locations
    feasibilityResult,   \* the dictionary returned
    feasibilityDone      \* the function has returned

\* State of the transcript specification (TranscriptGenerator).
VARIABLES
    trContent,           \* argument content, as its paragraphs
    estimated_duration,  \* estimated_duration_seconds, in milliseconds
    trSegments,          \* the list generate_transcript_segments returned
    trPc                 \* position of the caller

\* State of the in-memory cache specification (InMemoryCache).
VARIABLES
    memCache,    \* InMemoryCache._cache
    memExpiry,   \* InMemoryCache._expiry
    now,         \* datetime.now(), in seconds
    memHistory,  \* per key, the most recent set that no delete or clear followed
    lastOp       \* the last operation and, for get, its result

\* State of the endpoint specification (routers/tours.py beside the pipeline).
VARIABLES
    polls,         \* the last two get_tour_status responses of the owner
    apiCall,       \* the last endpoint call that ended, and its response
    audioRequest   \* the tour as a running get_tour_audio call read it

\* _geocode_stop
VARIABLES
    gStop,     \* the stop name and the city of the main location
    gQueries,  \* search_queries
    gNext,     \* position of the for loop in search_queries (from 1)
    gIssued,   \* the calls of search_locations made so far, with their responses
    gReturn,   \* the value returned: the coordinates, or <<>> for None
    gPc        \* "start", "loop", "done"

\* the error description of a tour
VARIABLES
    errRow,  \* the row of the tour: exists, status, length of description
    excLen,  \* length of the text of the exception being handled
    errPc    \* "running", "set_tour_error", "outer_except", "done"

\* _truncate_for_tts
VARIABLES
    ttsText,   \* the text given to _truncate_for_tts
    ttsOnce,   \* its result
    ttsTwice,  \* the result of _truncate_for_tts on that result
    ttsPc      \* "start", "once", "twice"

\* UsageTracker.record_api_usage
VARIABLES
    usageBackend,    \* the backend of the cache service: "memory" or "redis"
    usageStore,      \* the daily, monthly and hourly counter in the cache
    usageTasks,      \* per task: position in record_api_usage and its local usage_data
    usageCompleted   \* number and units of the calls that have completed

\* AIService.generate_audio
VARIABLES
    speechCache,  \* the audio entries of the cache, by key
    speechCall,   \* the running or last call of generate_audio
    speechStats   \* calls made, provider calls, recorded cache hits and usage records

contentVars == <<store, calls, generated, otherWrites>>
stopsVars == <<main_location, walkable_stops, valid_stops, stopI, resolved_stops,
               stopsPc, returned_stops, persisted_stops, geocodeLog, feasibility>>
routeVars == <<route_locations, feasibilityResult, feasibilityDone>>
keyVars == <<keyRequests, keyResults, keysComputed, keyPrompts>>
chunkVars == <<chunkText, max_chunk_size, remaining_text, chunks, chunkPc, chunkResult>>
transcriptVars == <<trContent, estimated_duration, trSegments, trPc>>
cacheVars == <<memCache, memExpiry, now, memHistory, lastOp>>
apiVars == <<polls, apiCall, audioRequest>>
geocodeVars == <<gStop, gQueries, gNext, gIssued, gReturn, gPc>>
errorVars == <<errRow, excLen, errPc>>
truncateVars == <<ttsText, ttsOnce, ttsTwice, ttsPc>>
usageVars == <<usageBackend, usageStore, usageTasks, usageCompleted>>
speechVars == <<speechCache, speechCall, speechStats>>

\* what each specification leaves alone
sideVars == <<contentVars, keyVars, chunkVars, stopsVars, routeVars, transcriptVars,
             cacheVars,
             apiVars,
             geocodeVars,
             errorVars,
             truncateVars,
             usageVars,
             speechVars>>

vars == <<preferred, contentCache, audioCache, dbTour, pc, content, primaryError,
          fallbackError, content_data, stopIndex, geocoded_stops, audio_data, audio_url,
          transcript_segments, providerCalls, aiResult, aiError, geocodeCalls,
          ttsCalls, ttsResult, stopStage, deletePc, statusLog, dbFailures, dbFailed,
          deleted, cachedBeforeDelete>>

aiVars == <<content, primaryError, fallbackError, providerCalls, aiResult, aiError>>
stageVars == <<stopIndex, geocoded_stops, audio_data, audio_url,
               transcript_segments, geocodeCalls, ttsCalls, ttsResult, stopStage>>

\* the feasibility check has not run and no save of stops was attempted
NoStopStage == [feasibility |-> "not_run", save |-> "not_run"]

NoRow ==
    [exists |-> FALSE, status |-> "none", title |-> "none", content |-> "none",
     description |-> "none", audio_url |-> "none", transcript |-> "none",
     llm_provider |-> "none", llm_model |-> "none", generation_params |-> NoMetadata,
     walkable_stops |-> <<>>]

\* the row TourService.generate_tour inserts
NewTourRow ==
    [exists |-> TRUE, status |-> "generating", title |-> "placeholder",
     content |-> "placeholder", description |-> "placeholder",
     audio_url |-> "none", transcript |-> "none",
     llm_provider |-> "none", llm_model |-> "none", generation_params |-> NoMetadata,
     walkable_stops |-> <<>>]

\* all variables of the pipeline specification at rest
PipelineIdle ==
    /\ preferred = "openai"
    /\ contentCache = NoData
    /\ audioCache = FALSE
    /\ dbTour = NoRow
    /\ pc = "idle"
    /\ content = NoData
    /\ primaryError = <<>>
    /\ fallbackError = <<>>
    /\ content_data = NoData
    /\ stopIndex = 0
    /\ geocoded_stops = <<>>
    /\ audio_data = "none"
    /\ audio_url = "none"
    /\ transcript_segments = "none"
    /\ providerCalls = <<>>
    /\ aiResult = "pending"
    /\ aiError = <<>>
    /\ geocodeCalls = 0
    /\ ttsCalls = 0
    /\ ttsResult = "pending"
    /\ stopStage = NoStopStage
    /\ deletePc = "idle"
    /\ statusLog = <<>>
    /\ dbFailures = 0
    /\ dbFailed = FALSE
    /\ deleted = FALSE
    /\ cachedBeforeDelete = FALSE

notContentVars ==
    <<vars, keyVars, chunkVars, stopsVars, routeVars, transcriptVars, cacheVars,
      apiVars,
      geocodeVars,
      errorVars,
      truncateVars,
      usageVars,
      speechVars>>
notKeyVars ==
    <<vars, contentVars, chunkVars, stopsVars, routeVars, transcriptVars, cacheVars,
      apiVars,
      geocodeVars,
      errorVars,
      truncateVars,
      usageVars,
      speechVars>>
notChunkVars ==
    <<vars, contentVars, keyVars, stopsVars, routeVars, transcriptVars, cacheVars,
      apiVars,
      geocodeVars,
      errorVars,
      truncateVars,
      usageVars,
      speechVars>>
notStopsVars ==
    <<vars, contentVars, keyVars, chunkVars, routeVars, transcriptVars, cacheVars,
      apiVars,
      geocodeVars,
      errorVars,
      truncateVars,
      usageVars,
      speechVars>>
notRouteVars ==
    <<vars, contentVars, keyVars, chunkVars, stopsVars, transcriptVars, cacheVars,
      apiVars,
      geocodeVars,
      errorVars,
      truncateVars,
      usageVars,
      speechVars>>
notTranscriptVars ==
    <<vars, contentVars, keyVars, chunkVars, stopsVars, routeVars, cacheVars, apiVars,
      geocodeVars,
      errorVars,
      truncateVars,
      usageVars,
      speechVars>>
notCacheVars ==
    <<vars, contentVars, keyVars, chunkVars, stopsVars, routeVars, transcriptVars,
      apiVars,
      geocodeVars,
      errorVars,
      truncateVars,
      usageVars,
      speechVars>>
notApiVars ==
    <<contentVars, keyVars, chunkVars, stopsVars, routeVars, transcriptVars, cacheVars,
      geocodeVars,
      errorVars,
      truncateVars,
      usageVars,
      speechVars>>
notGeocodeVars ==
    <<vars, contentVars, keyVars, chunkVars, stopsVars, routeVars, transcriptVars, cacheVars, apiVars,
      errorVars,
      truncateVars,
      usageVars,
      speechVars>>
notErrorVars ==
    <<vars, contentVars, keyVars, chunkVars, stopsVars, routeVars, transcriptVars, cacheVars, apiVars, geocodeVars,
      truncateVars,
      usageVars,
      speechVars>>
notTruncateVars ==
    <<vars, contentVars, keyVars, chunkVars, stopsVars, routeVars, transcriptVars, cacheVars, apiVars, geocodeVars, errorVars,
      usageVars,
      speechVars>>
notUsageVars ==
    <<vars, contentVars, keyVars, chunkVars, stopsVars, routeVars, transcriptVars, cacheVars, apiVars, geocodeVars, errorVars, truncateVars,
      speechVars>>
notSpeechVars ==
    <<vars, contentVars, keyVars, chunkVars, stopsVars, routeVars, transcriptVars, cacheVars, apiVars, geocodeVars, errorVars, truncateVars, usageVars>>

\* the variables of the specifications that are not running
ContentIdle == store = <<>> /\ calls = <<>> /\ generated = 0 /\ otherWrites = 0
KeyIdle == keyRequests = <<>> /\ keyResults = <<>> /\ keysComputed = FALSE /\ keyPrompts = <<>>
ChunkIdle ==
    /\ chunkText = <<>>
    /\ max_chunk_size = 0
    /\ remaining_text = <<>>
    /\ chunks = <<>>
    /\ chunkPc = "idle"
    /\ chunkResult = <<>>
StopsIdle ==
    /\ main_location = <<>>
    /\ walkable_stops = <<>>
    /\ valid_stops = <<>>
    /\ stopI = 0
    /\ resolved_stops = <<>>
    /\ stopsPc = "idle"
    /\ returned_stops = <<>>
    /\ persisted_stops = <<>>
    /\ geocodeLog = <<>>
    /\ feasibility = <<>>
RouteIdle ==
    /\ route_locations = <<>>
    /\ feasibilityResult = <<>>
    /\ feasibilityDone = FALSE
TranscriptIdle ==
    /\ trContent = <<>>
    /\ estimated_duration = 0
    /\ trSegments = <<>>
    /\ trPc = "idle"
CacheIdle ==
    /\ memCache = <<>>
    /\ memExpiry = <<>>
    /\ now = 0
    /\ memHistory = <<>>
    /\ lastOp = <<>>
ApiIdle ==
    /\ polls = <<>>
    /\ apiCall = <<>>
    /\ audioRequest = <<>>
GeocodeIdle ==
    /\ gStop = <<>>
    /\ gQueries = <<>>
    /\ gNext = 0
    /\ gIssued = <<>>
    /\ gReturn = <<>>
    /\ gPc = "idle"
ErrorIdle ==
    /\ errRow = <<>>
    /\ excLen = 0
    /\ errPc = "idle"
TruncateIdle ==
    /\ ttsText = <<>>
    /\ ttsOnce = <<>>
    /\ ttsTwice = <<>>
    /\ ttsPc = "idle"
UsageIdle ==
    /\ usageBackend = "idle"
    /\ usageStore = <<>>
    /\ usageTasks = <<>>
    /\ usageCompleted = <<>>
SpeechIdle ==
    /\ speechCache = <<>>
    /\ speechCall = <<>>
    /\ speechStats = <<>>

IdleExcept(running) ==
    /\ IF running \in {"pipeline", "api"} THEN TRUE ELSE PipelineIdle
    /\ IF running = "content" THEN TRUE ELSE ContentIdle
    /\ IF running = "key" THEN TRUE ELSE KeyIdle
    /\ IF running = "chunk" THEN TRUE ELSE ChunkIdle
    /\ IF running = "stops" THEN TRUE ELSE StopsIdle
    /\ IF running = "route" THEN TRUE ELSE RouteIdle
    /\ IF running = "transcript" THEN TRUE ELSE TranscriptIdle
    /\ IF running = "cache" THEN TRUE ELSE CacheIdle
    /\ IF running = "api" THEN TRUE ELSE ApiIdle
    /\ IF running = "geocode" THEN TRUE ELSE GeocodeIdle
    /\ IF running = "error" THEN TRUE ELSE ErrorIdle
    /\ IF running = "truncate" THEN TRUE ELSE TruncateIdle
    /\ IF running = "usage" THEN TRUE ELSE UsageIdle
    /\ IF running = "speech" THEN TRUE ELSE SpeechIdle

Init ==
    /\ preferred \in LLMProvider
    /\ contentCache = NoData
    /\ audioCache = FALSE
    /\ dbTour = NoRow
    /\ pc = "idle"
    /\ content = NoData
    /\ primaryError = <<>>
    /\ fallbackError = <<>>
    /\ content_data = NoData
    /\ stopIndex = 0
    /\ geocoded_stops = <<>>
    /\ audio_data = "none"
    /\ audio_url = "none"
    /\ transcript_segments = "none"
    /\ providerCalls = <<>>
    /\ aiResult = "pending"
    /\ aiError = <<>>
    /\ geocodeCalls = 0
    /\ ttsCalls = 0
    /\ ttsResult = "pending"
    /\ stopStage = NoStopStage
    /\ deletePc = "idle"
    /\ statusLog = <<>>
    /\ dbFailures = 0
    /\ dbFailed = FALSE
    /\ deleted = FALSE
    /\ cachedBeforeDelete = FALSE
    /\ IdleExcept("pipeline")

\* outcomes of a database operation that may still be made to fail
DbOutcomes(failures) ==
    IF dbFailures < MaxDbFailures THEN {"ok"} \cup failures ELSE {"ok"}

\* a commit of a row whose title is NULL violates tours.title nullable=False
CommitRejected(row) == row.title = "null" \/ row.content = "null"

(***************************************************************************)
(* TourService.generate_tour: insert the row, start the background task.   *)
(***************************************************************************)
GenerateTour ==
    /\ pc = "idle"
    /\ dbTour' = NewTourRow
    /\ statusLog' = <<NewTourRow.status>>
    /\ pc' = "cache_get"
    /\ UNCHANGED <<sideVars, preferred, contentCache, audioCache, content_data, dbFailures,
                   dbFailed, deleted, deletePc,
                   cachedBeforeDelete>>
    /\ UNCHANGED aiVars
    /\ UNCHANGED stageVars

(***************************************************************************)
(* AIService.generate_tour_content, one action per awaited call.           *)
(***************************************************************************)
\* cache lookup; a hit returns the cached result without any provider call.
\* Back in the caller, the log line len(content_data['content']) raises
\* TypeError inside the try block when the content is null.
CacheGet ==
    /\ pc = "cache_get"
    /\ IF contentCache # NoData
       THEN /\ aiResult' = "hit"
            /\ content_data' = contentCache
            /\ IF contentCache.content = "null"
               THEN /\ aiError' = <<"TypeError">>
                    /\ pc' = "set_tour_error"
               ELSE /\ aiError' = aiError
                    /\ pc' = "save_content"
       ELSE /\ pc' = "call_primary"
            /\ UNCHANGED <<aiResult, content_data, aiError>>
    /\ UNCHANGED <<sideVars, preferred, contentCache, audioCache, dbTour, content, primaryError,
                   fallbackError, providerCalls, statusLog, dbFailures, dbFailed, deleted, deletePc,
                   cachedBeforeDelete>>
    /\ UNCHANGED stageVars

\* the preferred provider is called; a failure (API error or unusable
\* response) leads to the fallback provider
CallPrimary ==
    /\ pc = "call_primary"
    /\ \E outcome \in ProviderOutcomes :
         LET r == GenerateTourContentWithProvider(preferred, outcome)
         IN /\ providerCalls' = Append(providerCalls,
                                       [provider |-> preferred, outcome |-> outcome])
            /\ IF r.ok
               THEN /\ content' = r.data
                    /\ pc' = "cache_set"
                    /\ UNCHANGED primaryError
               ELSE /\ primaryError' = r.err
                    /\ pc' = "call_fallback"
                    /\ UNCHANGED content
    /\ UNCHANGED <<sideVars, preferred, contentCache, audioCache, dbTour, content_data,
                   fallbackError, aiResult, aiError, statusLog, dbFailures, dbFailed, deleted, deletePc,
                   cachedBeforeDelete>>
    /\ UNCHANGED stageVars

\* the other provider is called once; if it fails too, ContentGenerationError
\* is raised and the caller goes to _set_tour_error
CallFallback ==
    /\ pc = "call_fallback"
    /\ \E outcome \in ProviderOutcomes :
         LET fallback_provider == FallbackOf(preferred)
             r == GenerateTourContentWithProvider(fallback_provider, outcome)
         IN /\ providerCalls' = Append(providerCalls,
                                       [provider |-> fallback_provider, outcome |-> outcome])
            /\ IF r.ok
               THEN /\ content' = [r.data EXCEPT !.metadata =
                                     FallbackMetadata(@, preferred, fallback_provider)]
                    /\ pc' = "cache_set"
                    /\ UNCHANGED <<aiResult, aiError, fallbackError>>
               ELSE /\ aiResult' = "both_failed"
                    /\ fallbackError' = r.err
                    /\ aiError' = BothFailedMessage(preferred, primaryError,
                                                    fallback_provider, r.err)
                    /\ pc' = "set_tour_error"
                    /\ UNCHANGED content
    /\ UNCHANGED <<sideVars, preferred, contentCache, audioCache, dbTour, content_data,
                   primaryError, statusLog, dbFailures, dbFailed, deleted, deletePc,
                   cachedBeforeDelete>>
    /\ UNCHANGED stageVars

\* the result is cached, usage is recorded (_estimate_tokens raises TypeError
\* on a null title or content) and the result is returned
CacheSet ==
    /\ pc = "cache_set"
    /\ contentCache' = content
    /\ IF EstimateTokensRaises(content)
       THEN /\ aiResult' = "raised"
            /\ aiError' = <<"TypeError">>
            /\ pc' = "set_tour_error"
            /\ UNCHANGED content_data
       ELSE /\ aiResult' = "ok"
            /\ content_data' = content
            /\ pc' = "save_content"
            /\ UNCHANGED aiError
    /\ UNCHANGED <<sideVars, preferred, audioCache, dbTour, content, primaryError,
                   fallbackError, providerCalls, statusLog, dbFailures, dbFailed, deleted, deletePc,
                   cachedBeforeDelete>>
    /\ UNCHANGED stageVars

\* another tour's generation with the same parameters stores its result under
\* the same content cache key (generate_tour_content, cache.set_json)
OtherGenerationCachesContent ==
    /\ contentCache = NoData
    /\ \E text \in ProviderTexts, usedFallback \in BOOLEAN :
         LET provider == IF usedFallback THEN FallbackOf(preferred) ELSE preferred
             r == GenerateTourContentWithProvider(provider, [raised |-> FALSE, err |-> "none", text |-> text])
         IN /\ r.ok
            /\ contentCache' =
                 IF usedFallback
                 THEN [r.data EXCEPT !.metadata = FallbackMetadata(@, preferred, provider)]
                 ELSE r.data
    /\ UNCHANGED <<sideVars, preferred, audioCache, dbTour, pc, content_data, statusLog,
                   dbFailures, dbFailed, deleted, deletePc,
                   cachedBeforeDelete>>
    /\ UNCHANGED aiVars
    /\ UNCHANGED stageVars

(***************************************************************************)
(* TourService helpers that write the row.                                 *)
(***************************************************************************)
SetTourErrorRow_NoStatus(row) ==
    [row EXCEPT !.description = "llm_error"]

\* _set_tour_error: status and truncated message
SetTourErrorRow(row) ==
    [row EXCEPT !.status = "error", !.description = "llm_error"]

SaveContentRow_StatusOnly(row, data, status) ==
    [row EXCEPT !.status = status]

\* _save_content: title, content, status and provider metadata in one commit
SaveContentRow(row, data, status) ==
    [row EXCEPT !.title = data.title,
                !.content = data.content,
                !.status = status,
                !.llm_provider = data.metadata.actual_provider,
                !.llm_model = data.metadata.model,
                !.generation_params = data.metadata]

\* final update of _generate_tour_content_background
FinalPersistRow(row, data, url, segments) ==
    [row EXCEPT !.title = data.title,
                !.content = data.content,
                !.audio_url = url,
                !.transcript = segments,
                !.status = "ready",
                !.llm_provider = data.metadata.actual_provider,
                !.llm_model = data.metadata.model,
                !.generation_params = data.metadata]

OuterExceptRow_Regress(row) ==
    [row EXCEPT !.status = "generating", !.description = "generation_failed"]

\* outer except of _generate_tour_content_background
OuterExceptRow(row) ==
    [row EXCEPT !.status = "error", !.description = "generation_failed"]

\* TranscriptGenerator.generate_transcript_segments as used by the pipeline:
\* no segments for content without a non-whitespace character
TranscriptSegments_Never(text) == "empty_list"

TranscriptSegments(text) ==
    IF text \in {"empty", "blank"} THEN "empty_list" ELSE "segments"

AfterSynthesis_TimeoutFatal(result) ==
    CASE result = "ok" -> "cache_audio"
      [] result = "timeout" -> "outer_except"
      [] OTHER -> "final_persist"

\* where the pipeline goes after the synthesis stage: a timeout or an error is
\* logged and the pipeline proceeds without audio
AfterSynthesis(result) ==
    IF result = "ok" THEN "cache_audio" ELSE "final_persist"

AfterGeocoding_InfeasibleFatal(stops, check) ==
    IF stops = <<>> THEN "generate_audio"
    ELSE IF check = "feasible" THEN "save_walkable_stops" ELSE "outer_except"

\* where the pipeline goes after the geocoding loop: the result of the
\* feasibility check is only logged, and the stops are saved if there are any
AfterGeocoding(stops, check) ==
    IF stops # <<>> THEN "save_walkable_stops" ELSE "generate_audio"

\* where the pipeline goes after _save_content: _process_walkable_tour_content
\* returns [] at once when the content has no walkable_stops
AfterSaveContent(data) ==
    IF data.walkable_stops = 0 THEN "generate_audio" ELSE "geocode_stop"

(***************************************************************************)
(* _generate_tour_content_background, one action per awaited call.         *)
(***************************************************************************)
\* content generation failed: _set_tour_error, then return
SetTourError ==
    /\ pc = "set_tour_error"
    /\ \E o \in DbOutcomes({"fail"}) :
         IF o = "fail"
         THEN /\ dbFailures' = dbFailures + 1
              /\ dbFailed' = TRUE
              /\ pc' = "outer_except"
              /\ UNCHANGED <<dbTour, statusLog>>
         ELSE /\ IF dbTour.exists
                 THEN /\ dbTour' = SetTourErrorRow(dbTour)
                      /\ statusLog' = Append(statusLog, dbTour'.status)
                 ELSE UNCHANGED <<dbTour, statusLog>>
              /\ pc' = "done"
              /\ UNCHANGED <<dbFailures, dbFailed>>
    /\ UNCHANGED <<sideVars, preferred, contentCache, audioCache, content_data, deleted, deletePc,
                   cachedBeforeDelete>>
    /\ UNCHANGED aiVars
    /\ UNCHANGED stageVars

\* _save_content(tour_id, content_data, status="content_ready"): commit, then
\* refresh; either may raise into the outer except
SaveContent ==
    /\ pc = "save_content"
    /\ \E o \in DbOutcomes({"commit_fail", "refresh_fail"}) :
         LET new == SaveContentRow(dbTour, content_data, "content_ready")
         IN IF ~dbTour.exists
            THEN \* row not found: logged, the pipeline goes on
                 /\ o = "ok"
                 /\ pc' = AfterSaveContent(content_data)
                 /\ UNCHANGED <<dbTour, statusLog, dbFailures, dbFailed>>
            ELSE IF CommitRejected(new) \/ o = "commit_fail"
            THEN /\ dbFailures' = IF o = "ok" THEN dbFailures ELSE dbFailures + 1
                 /\ dbFailed' = TRUE
                 /\ pc' = "outer_except"
                 /\ UNCHANGED <<dbTour, statusLog>>
            ELSE /\ dbTour' = new
                 /\ statusLog' = Append(statusLog, new.status)
                 /\ IF o = "refresh_fail"
                    THEN /\ dbFailures' = dbFailures + 1
                         /\ dbFailed' = TRUE
                         /\ pc' = "outer_except"
                    ELSE /\ pc' = AfterSaveContent(content_data)
                         /\ UNCHANGED <<dbFailures, dbFailed>>
    /\ UNCHANGED <<sideVars, preferred, contentCache, audioCache, content_data, deleted, deletePc,
                   cachedBeforeDelete>>
    /\ UNCHANGED aiVars
    /\ UNCHANGED stageVars

\* one round of the loop of _process_walkable_tour_content: _geocode_stop for
\* stop stopIndex; a stop without a result (or whose geocoding raised) is dropped.
\* After the last round the check of the route is checked when a stop
\* was resolved; what the check finds depends on the keys of the provider's
\* stop dictionaries, and an exception in it is caught.
GeocodeStop ==
    /\ pc = "geocode_stop"
    /\ \E found \in BOOLEAN, check \in {"not_run", "feasible", "infeasible", "raised"} :
         LET stops == IF found THEN Append(geocoded_stops, stopIndex + 1)
                               ELSE geocoded_stops
             last == ~(stopIndex + 1 < content_data.walkable_stops)
         IN /\ (check = "not_run") <=> (~last \/ stops = <<>>)
            /\ geocoded_stops' = stops
            /\ geocodeCalls' = geocodeCalls + 1
            /\ stopIndex' = stopIndex + 1
            /\ stopStage' = [stopStage EXCEPT !.feasibility = check]
            /\ pc' = IF ~last THEN "geocode_stop" ELSE AfterGeocoding(stops, check)
    /\ UNCHANGED <<sideVars, preferred, contentCache, audioCache, dbTour, content_data,
                   audio_data, audio_url, transcript_segments, ttsCalls, ttsResult,
                   statusLog, dbFailures, dbFailed, deleted, deletePc,
                   cachedBeforeDelete>>
    /\ UNCHANGED aiVars

\* _save_walkable_stops: a failure is logged and the pipeline goes on
SaveWalkableStops ==
    /\ pc = "save_walkable_stops"
    /\ \E o \in DbOutcomes({"fail"}) :
         IF o = "fail"
         THEN /\ dbFailures' = dbFailures + 1
              /\ stopStage' = [stopStage EXCEPT !.save = "failed"]
              /\ UNCHANGED dbTour
         ELSE /\ dbTour' = IF dbTour.exists
                            THEN [dbTour EXCEPT !.walkable_stops = geocoded_stops]
                            ELSE dbTour
              /\ stopStage' = [stopStage EXCEPT !.save =
                                  IF dbTour.exists THEN "saved" ELSE "no_row"]
              /\ UNCHANGED dbFailures
    /\ pc' = "generate_audio"
    /\ UNCHANGED <<sideVars, preferred, contentCache, audioCache, content_data, statusLog,
                   dbFailed, deleted, deletePc,
                   cachedBeforeDelete>>
    /\ UNCHANGED aiVars
    /\ UNCHANGED <<stopIndex, geocoded_stops, audio_data, audio_url,
                   transcript_segments, geocodeCalls, ttsCalls, ttsResult>>

\* synthesis stage.  Content of more than 4000 characters goes to
\* ai_service.generate_audio_chunked, which AIService does not define: the
\* AttributeError is caught like any synthesis error.  Otherwise generate_audio
\* runs under asyncio.wait_for.  Without audio bytes nothing is awaited before
\* the final update, so the transcript is computed in the same step.
GenerateAudio ==
    /\ pc = "generate_audio"
    /\ \E o \in {"ok", "empty", "timeout", "error"} :
         LET chunked == content_data.content = "long"
             result == IF chunked THEN "error" ELSE o
         IN /\ chunked => (o = "error")
            /\ ttsCalls' = IF chunked THEN ttsCalls ELSE ttsCalls + 1
            /\ ttsResult' = result
            /\ audio_data' = CASE result = "ok" -> "bytes"
                                [] result = "empty" -> "empty"
                                [] OTHER -> "none"
            /\ pc' = AfterSynthesis(result)
            /\ IF result = "ok"
               THEN UNCHANGED transcript_segments
               ELSE transcript_segments' = TranscriptSegments(content_data.content)
    /\ UNCHANGED <<sideVars, preferred, contentCache, audioCache, dbTour, content_data,
                   stopIndex, geocoded_stops, audio_url, geocodeCalls, stopStage,
                   statusLog, dbFailures, dbFailed, deleted, deletePc,
                   cachedBeforeDelete>>
    /\ UNCHANGED aiVars

\* audio bytes are stored under "audio:tour:{tour_id}" and audio_url is set;
\* then the transcript is computed
CacheAudio ==
    /\ pc = "cache_audio"
    /\ audioCache' = TRUE
    /\ audio_url' = "url"
    /\ transcript_segments' = TranscriptSegments(content_data.content)
    /\ pc' = "final_persist"
    /\ UNCHANGED <<sideVars, preferred, contentCache, dbTour, content_data, stopIndex,
                   geocoded_stops, audio_data, geocodeCalls, ttsCalls, ttsResult, stopStage,
                   statusLog, dbFailures, dbFailed, deleted, deletePc,
                   cachedBeforeDelete>>
    /\ UNCHANGED aiVars

\* final update: status ready is committed, then the row is refreshed inside
\* the same try block
FinalPersist ==
    /\ pc = "final_persist"
    /\ \E o \in DbOutcomes({"commit_fail", "refresh_fail"}) :
         LET new == FinalPersistRow(dbTour, content_data, audio_url, transcript_segments)
         IN IF ~dbTour.exists
            THEN /\ o = "ok"
                 /\ pc' = "done"
                 /\ UNCHANGED <<dbTour, statusLog, dbFailures, dbFailed>>
            ELSE IF CommitRejected(new) \/ o = "commit_fail"
            THEN /\ dbFailures' = IF o = "ok" THEN dbFailures ELSE dbFailures + 1
                 /\ dbFailed' = TRUE
                 /\ pc' = "outer_except"
                 /\ UNCHANGED <<dbTour, statusLog>>
            ELSE /\ dbTour' = new
                 /\ statusLog' = Append(statusLog, new.status)
                 /\ IF o = "refresh_fail"
                    THEN /\ dbFailures' = dbFailures + 1
                         /\ dbFailed' = TRUE
                         /\ pc' = "outer_except"
                    ELSE /\ pc' = "done"
                         /\ UNCHANGED <<dbFailures, dbFailed>>
    /\ UNCHANGED <<sideVars, preferred, contentCache, audioCache, content_data, deleted, deletePc,
                   cachedBeforeDelete>>
    /\ UNCHANGED aiVars
    /\ UNCHANGED stageVars

\* outer except: whatever escaped the try block sets status error; a failure
\* of this update is only logged
OuterExcept ==
    /\ pc = "outer_except"
    /\ \E o \in DbOutcomes({"fail"}) :
         IF o = "fail"
         THEN /\ dbFailures' = dbFailures + 1
              /\ UNCHANGED <<dbTour, statusLog>>
         ELSE /\ IF dbTour.exists
                 THEN /\ dbTour' = OuterExceptRow(dbTour)
                      /\ statusLog' = Append(statusLog, dbTour'.status)
                 ELSE UNCHANGED <<dbTour, statusLog>>
              /\ UNCHANGED dbFailures
    /\ pc' = "done"
    /\ UNCHANGED <<sideVars, preferred, contentCache, audioCache, content_data, dbFailed,
                   deleted, deletePc,
                   cachedBeforeDelete>>
    /\ UNCHANGED aiVars
    /\ UNCHANGED stageVars

(***************************************************************************)
(* TourService.delete_tour by the owner.                                   *)
(***************************************************************************)
\* get_tour finds the row, then the cached audio entry is deleted
DeleteTourCache ==
    /\ deletePc = "idle"
    /\ dbTour.exists
    /\ audioCache' = FALSE
    /\ cachedBeforeDelete' = audioCache
    /\ deletePc' = "cache_deleted"
    /\ UNCHANGED <<sideVars, preferred, contentCache, dbTour, pc, content_data, statusLog,
                   dbFailures, dbFailed, deleted>>
    /\ UNCHANGED aiVars
    /\ UNCHANGED stageVars

\* db.delete and commit; on failure the session is rolled back
DeleteTourCommit ==
    /\ deletePc = "cache_deleted"
    /\ \E o \in DbOutcomes({"fail"}) :
         IF o = "fail"
         THEN /\ dbFailures' = dbFailures + 1
              /\ UNCHANGED <<dbTour, deleted>>
         ELSE /\ dbTour' = NoRow
              /\ deleted' = TRUE
              /\ UNCHANGED dbFailures
    /\ deletePc' = "idle"
    /\ UNCHANGED <<sideVars, preferred, contentCache, audioCache, pc, content_data,
                   statusLog, dbFailed, cachedBeforeDelete>>
    /\ UNCHANGED aiVars
    /\ UNCHANGED stageVars

Next ==
    \/ GenerateTour
    \/ CacheGet
    \/ CallPrimary
    \/ CallFallback
    \/ CacheSet
    \/ OtherGenerationCachesContent
    \/ SetTourError
    \/ SaveContent
    \/ GeocodeStop
    \/ SaveWalkableStops
    \/ GenerateAudio
    \/ CacheAudio
    \/ FinalPersist
    \/ OuterExcept
    \/ DeleteTourCache
    \/ DeleteTourCommit

Spec == Init /\ [][Next]_vars

TypeOK ==
    /\ preferred \in LLMProvider
    /\ pc \in {"idle", "cache_get", "call_primary", "call_fallback", "cache_set",
                "set_tour_error", "save_content", "geocode_stop",
                "save_walkable_stops", "generate_audio", "cache_audio",
                "final_persist", "outer_except", "done"}
    /\ dbTour.status \in {"none", "generating", "content_ready", "ready", "error"}
    /\ dbFailures \in 0..MaxDbFailures
    /\ Len(geocoded_stops) <= MaxStops
    /\ \A i \in 1..Len(geocoded_stops) : geocoded_stops[i] \in 1..MaxStops
    /\ Len(providerCalls) <= 2
    /\ \A i \in 1..Len(providerCalls) : providerCalls[i].outcome \in ProviderOutcomes

(***************************************************************************)
(* Properties.                                                             *)
(***************************************************************************)
RangeOf(seq) == { seq[i] : i \in 1..Len(seq) }

LastOf(seq) == seq[Len(seq)]

\* the status sequences the state machine allows
AllowedStatusLogs ==
    { <<>>,
      <<"generating">>,
      <<"generating", "content_ready">>,
      <<"generating", "content_ready", "ready">>,
      <<"generating", "error">>,
      <<"generating", "content_ready", "error">>,
      <<"generating", "content_ready", "ready", "error">> }

\* C1: for every combination of stage outcomes, the status values persisted
\* for the tour form a prefix of generating, content_ready, ready, optionally
\* followed by error, and the row always carries the last persisted status:
\* the status never goes back to an earlier value.
C1_StatusMonotonic ==
    /\ statusLog \in AllowedStatusLogs
    /\ dbTour.exists => dbTour.status = LastOf(statusLog)

C1_Witness ==
    /\ pc = "done"
    /\ ttsResult = "timeout"
    /\ statusLog = <<"generating", "content_ready", "ready">>

\* C2: once status ready has been committed for the tour, no later step of
\* the execution changes the status (to error or to anything else).
C2_ReadyIsFinal ==
    [][(dbTour.exists /\ dbTour.status = "ready" /\ dbTour'.exists)
         => dbTour'.status = "ready"]_vars

\* C3: once its background execution has finished, the tour is not in status
\* generating, whatever the outcomes of the provider and persistence calls.
C3_NeverStuckGenerating ==
    (pc = "done" /\ dbTour.exists) => dbTour.status # "generating"

\* C4: when both providers failed, the execution stops after recording the
\* error: no geocoding call, no synthesis call, no audio cache entry, never
\* content_ready or ready; and unless a persistence write raised, the tour
\* ends in status error.
C4_ContentFailureStops ==
    aiResult = "both_failed" =>
        /\ pc \in {"set_tour_error", "outer_except", "done"}
        /\ geocodeCalls = 0
        /\ ttsCalls = 0
        /\ ~audioCache
        /\ "content_ready" \notin RangeOf(statusLog)
        /\ "ready" \notin RangeOf(statusLog)
        /\ (pc = "done" /\ dbTour.exists /\ ~dbFailed) =>
               (dbTour.status = "error" /\ dbTour.description = "llm_error")

C4_Witness ==
    /\ aiResult = "both_failed"
    /\ pc = "done"
    /\ dbTour.exists
    /\ dbTour.status = "error"

\* the stages that follow the content_ready checkpoint
LaterStages ==
    {"geocode_stop", "save_walkable_stops", "generate_audio", "cache_audio",
     "final_persist"}

\* C5: the generated title, content and provider/model are persisted with
\* status content_ready before any geocoding or synthesis call, and from that
\* checkpoint on the row keeps the generated title and content (never the
\* placeholder) whatever later stage fails.
C5_CheckpointSurvives ==
    /\ (dbTour.exists /\ (pc \in LaterStages \/ geocodeCalls > 0 \/ ttsCalls > 0))
          => "content_ready" \in RangeOf(statusLog)
    /\ (dbTour.exists /\ "content_ready" \in RangeOf(statusLog)) =>
          /\ dbTour.status \in {"content_ready", "ready", "error"}
          /\ content_data # NoData
          /\ dbTour.title = content_data.title
          /\ dbTour.content = content_data.content
          /\ dbTour.title # "placeholder"
          /\ dbTour.content # "placeholder"
          /\ dbTour.llm_provider = content_data.metadata.actual_provider
          /\ dbTour.llm_model = content_data.metadata.model

C5_Witness ==
    /\ pc = "done"
    /\ ttsCalls > 0
    /\ dbTour.exists
    /\ dbTour.status = "error"
    /\ dbTour.content = "text"
    /\ statusLog = <<"generating", "content_ready", "error">>

\* C6: when synthesis timed out or failed, no audio entry for the tour is
\* cached and the audio reference stays empty; the failure itself never leads
\* to status error (only a persistence failure does); and the execution that
\* finishes without a persistence failure leaves the tour ready with the
\* generated title, content, provider metadata and a transcript.
C6_SynthesisFailureNotFatal ==
    ttsResult \in {"timeout", "error"} =>
        /\ ~audioCache
        /\ audio_url = "none"
        /\ dbTour.exists => dbTour.audio_url = "none"
        /\ (dbTour.exists /\ dbTour.status = "error") => dbFailed
        /\ pc \in {"final_persist", "outer_except", "done"}
        /\ pc = "outer_except" => dbFailed
        /\ (pc = "done" /\ dbTour.exists /\ ~dbFailed) =>
              /\ dbTour.status = "ready"
              /\ dbTour.title = content_data.title
              /\ dbTour.content = content_data.content
              /\ dbTour.llm_provider = content_data.metadata.actual_provider
              /\ dbTour.llm_provider \in LLMProvider
              /\ dbTour.generation_params = content_data.metadata
              /\ dbTour.transcript \in {"segments", "empty_list"}

C6_Witness ==
    /\ ttsResult = "timeout"
    /\ pc = "done"
    /\ dbTour.exists
    /\ dbTour.status = "ready"
    /\ dbTour.audio_url = "none"
    /\ dbTour.transcript = "segments"

\* C7: a tour whose status is ready has non-empty title and content.
C7_ReadyHasContent ==
    (dbTour.exists /\ dbTour.status = "ready") =>
        /\ dbTour.content \in {"text", "long"}
        /\ dbTour.title = "text"

\* a JSON object with both title and content is recoverable from the text:
\* the whole text, or the span from the first "{" to the last "}", is such an
\* object
IsTourObject(s) ==
    /\ Len(s) >= 2
    /\ s[1] = "{"
    /\ s[Len(s)] = "}"
    /\ \A i \in 2..(Len(s)-1) : s[i] \in MemberTok
    /\ \E i \in 2..(Len(s)-1) : s[i] \in TitleTok
    /\ \E i \in 2..(Len(s)-1) : s[i] \in ContentTok

Recoverable(text) ==
    \/ IsTourObject(text)
    \/ \E i, j \in 1..Len(text) :
          /\ text[i] = "{" /\ \A k \in 1..(i-1) : text[k] # "{"
          /\ text[j] = "}" /\ \A k \in (j+1)..Len(text) : text[k] # "}"
          /\ i <= j
          /\ IsTourObject(SubSeq(text, i, j))

\* the provider call failed: it raised or its response is unusable
CallFailed(call) == call.outcome.raised \/ ~Recoverable(call.outcome.text)

\* generate_tour_content has left the provider calls behind
AiFinished == pc \notin {"idle", "cache_get", "call_primary", "call_fallback"}

\* C8: on a cache miss the preferred provider is called once; the other
\* provider is called, exactly once, only if the preferred one raised; there
\* are never more than two provider calls; if both raise, the error raised
\* carries both providers' error messages.
C8_FallbackCorrect ==
    /\ Len(providerCalls) <= 2
    /\ Len(providerCalls) >= 1 => providerCalls[1].provider = preferred
    /\ Len(providerCalls) = 2 =>
          /\ providerCalls[2].provider \in LLMProvider \ {preferred}
          /\ primaryError # <<>>
    /\ (AiFinished /\ aiResult # "hit") =>
          /\ Len(providerCalls) >= 1
          /\ primaryError = <<>> => Len(providerCalls) = 1
          /\ primaryError # <<>> => Len(providerCalls) = 2
    /\ aiResult = "both_failed" =>
          /\ Len(providerCalls) = 2
          /\ primaryError # <<>> /\ fallbackError # <<>>
          /\ Contains(primaryError, <<preferred>>)
          /\ Contains(fallbackError, <<providerCalls[2].provider>>)
          /\ Contains(aiError, primaryError)
          /\ Contains(aiError, fallbackError)

C8_Witness ==
    /\ aiResult = "both_failed"
    /\ Len(providerCalls) = 2
    /\ providerCalls[1].outcome.raised
    /\ providerCalls[2].outcome.raised

C10_MetadataRecordsProvider ==
    /\ content # NoData =>
          /\ Len(providerCalls) = 1 =>
                /\ content.metadata.fallback_used = FALSE
                /\ content.metadata.actual_provider = preferred
          /\ Len(providerCalls) = 2 =>
                /\ content.metadata.fallback_used = TRUE
                /\ content.metadata.original_provider = preferred
                /\ content.metadata.actual_provider = providerCalls[2].provider
                /\ content.metadata.actual_provider # preferred
          /\ content.metadata.model = ProviderModel(content.metadata.actual_provider)
    /\ aiResult = "ok" => (content # NoData /\ content_data = content)

C10_Witness ==
    /\ aiResult = "ok"
    /\ Len(providerCalls) = 2
    /\ content_data.metadata.fallback_used = TRUE
    /\ content_data.metadata.actual_provider # preferred

(***************************************************************************)
(* AIService.generate_tour_content over the shared content cache: a        *)
(* sequence of calls that are followed step by step, while the calls of    *)
(* other background executions, which run concurrently, store their        *)
(* results in the same cache.                                              *)
(***************************************************************************)
\* largest number of generate_tour_content calls followed in one run
MaxCalls == 2
\* largest number of results stored by concurrent calls in one run
MaxOtherWrites == 1

Calls == 1..MaxCalls

\* Interests are numbered in the order sorted() puts their names
\* (1 = "architecture", 2 = "history", 3 = "nature").
RECURSIVE InsertSorted(_, _)
InsertSorted(x, sorted) ==
    IF sorted = <<>> THEN <<x>>
    ELSE IF x <= Head(sorted) THEN <<x>> \o sorted
    ELSE <<Head(sorted)>> \o InsertSorted(x, Tail(sorted))

RECURSIVE Sorted(_)
Sorted(list) ==
    IF list = <<>> THEN <<>> ELSE InsertSorted(Head(list), Sorted(Tail(list)))

\* interests_sorted = sorted(interests) if interests else []
SortInterests_Unsorted(interests) == interests

SortInterests(interests) == Sorted(interests)

\* AIService._create_content_cache_key; the md5 digest is taken as injective,
\* so the key is the dictionary that is hashed
CreateContentCacheKey(location, interests, duration_minutes, language, narration_style, provider) ==
    [location_id |-> location.id,
     location_name |-> location.name,
     interests |-> SortInterests(interests),
     duration |-> duration_minutes,
     language |-> language,
     narration_style |-> narration_style,
     provider |-> provider]

\* the requests of the calls: two that differ in the order of the interests
\* only, and one for another duration
ContentRequests ==
    LET request(interests, duration_minutes) ==
          [location |-> [id |-> "loc-1", name |-> "Louvre"],
           interests |-> interests,
           duration_minutes |-> duration_minutes,
           language |-> "en",
           narration_style |-> "conversational",
           provider |-> "openai"]
    IN { request(<<1, 2>>, 30), request(<<2, 1>>, 30), request(<<1, 2>>, 60) }

NoRequest ==
    [location |-> [id |-> "none", name |-> "none"], interests |-> <<>>,
     duration_minutes |-> 0, language |-> "none", narration_style |-> "none",
     provider |-> "none"]

CacheKeyOf(request) ==
    CreateContentCacheKey(request.location, request.interests,
                          request.duration_minutes, request.language,
                          request.narration_style, request.provider)

ContentKeys == { CacheKeyOf(request) : request \in ContentRequests }

\* a cached result: the tour data with metadata.generation_timestamp
NoEntry == [data |-> NoData, generation_timestamp |-> 0]

\* what the providers are modelled to do in this specification: raise, return
\* a valid tour, or return a tour whose title is null
ContentResponses ==
    { outcome \in ProviderOutcomes :
        \/ outcome.raised
        \/ outcome.text \in { <<"{", "Tt", "Ct", StopsTokOf(0), "D", "}">>,
                              <<"{", "Tn", "Ct", "}">> } }

\* `if cached_result:` in generate_tour_content
ContentCacheHit_Never(entry) == FALSE

ContentCacheHit(entry) == entry # NoEntry

\* CacheService.set_json on the content store
SetJson_Dropped(cacheStore, key, value) == cacheStore

SetJson(cacheStore, key, value) == [cacheStore EXCEPT ![key] = value]

IdleCall ==
    [pc |-> "idle", request |-> NoRequest, content |-> NoEntry,
     result |-> "pending", returned |-> NoEntry,
     seen |-> NoEntry,        \* entry under the key at the lookup
     written |-> NoEntry,     \* entry this call stored
     provider_calls |-> 0, cache_writes |-> 0,
     cache_hits |-> 0,        \* record_cache_hit calls
     api_usage |-> 0,         \* record_api_usage calls
     after |-> {},            \* calls that had returned when this one started
     expired |-> FALSE,       \* the entry it stored has expired since
     overwritten |-> FALSE]   \* another call has stored under the key since


InitContent ==
    /\ store = [key \in ContentKeys |-> NoEntry]
    /\ calls = [c \in Calls |-> IdleCall]
    /\ generated = 0
    /\ otherWrites = 0
    /\ IdleExcept("content")

\* a tour's background execution calls generate_tour_content
StartCall ==
    /\ \E c \in Calls, request \in ContentRequests :
         /\ calls[c].pc = "idle"
         /\ c > 1 => calls[c - 1].pc = "done"
         /\ calls' = [calls EXCEPT ![c] =
                        [@ EXCEPT !.pc = "cache_get",
                                  !.request = request,
                                  !.after = { d \in Calls : calls[d].pc = "done" }]]
    /\ UNCHANGED <<store, generated, otherWrites, notContentVars>>

\* cached_result = await self.cache.get_json(cache_key); a hit records one
\* cache hit and returns the entry
ContentCacheGet ==
    /\ \E c \in Calls :
         LET entry == store[CacheKeyOf(calls[c].request)]
         IN /\ calls[c].pc = "cache_get"
            /\ calls' = [calls EXCEPT ![c] =
                 IF ContentCacheHit(entry)
                 THEN [@ EXCEPT !.pc = "done", !.seen = entry, !.result = "hit",
                                !.returned = entry, !.cache_hits = @ + 1]
                 ELSE [@ EXCEPT !.pc = "call_primary", !.seen = entry]]
    /\ UNCHANGED <<store, generated, otherWrites, notContentVars>>

\* _generate_tour_content_with_provider with the requested provider
ContentCallPrimary ==
    /\ \E c \in Calls, outcome \in ContentResponses :
         LET r == GenerateTourContentWithProvider(calls[c].request.provider, outcome)
         IN /\ calls[c].pc = "call_primary"
            /\ calls' = [calls EXCEPT ![c] =
                 IF r.ok
                 THEN [@ EXCEPT !.pc = "cache_set", !.provider_calls = @ + 1,
                                !.content = [data |-> r.data,
                                             generation_timestamp |-> generated + 1]]
                 ELSE [@ EXCEPT !.pc = "call_fallback", !.provider_calls = @ + 1]]
            /\ generated' = IF r.ok THEN generated + 1 ELSE generated
    /\ UNCHANGED <<store, otherWrites, notContentVars>>

\* the other provider, once; a second failure raises ContentGenerationError
ContentCallFallback ==
    /\ \E c \in Calls, outcome \in ContentResponses :
         LET provider == calls[c].request.provider
             fallback_provider == FallbackOf(provider)
             r == GenerateTourContentWithProvider(fallback_provider, outcome)
         IN /\ calls[c].pc = "call_fallback"
            /\ calls' = [calls EXCEPT ![c] =
                 IF r.ok
                 THEN [@ EXCEPT !.pc = "cache_set", !.provider_calls = @ + 1,
                                !.content =
                                   [data |-> [r.data EXCEPT !.metadata =
                                                FallbackMetadata(@, provider, fallback_provider)],
                                    generation_timestamp |-> generated + 1]]
                 ELSE [@ EXCEPT !.pc = "done", !.provider_calls = @ + 1,
                                !.result = "both_failed"]]
            /\ generated' = IF r.ok THEN generated + 1 ELSE generated
    /\ UNCHANGED <<store, otherWrites, notContentVars>>

\* cache.set_json, then record_api_usage (whose argument _estimate_tokens
\* raises TypeError on a null title or content), then return content
ContentCacheSet ==
    /\ \E c \in Calls :
         LET key == CacheKeyOf(calls[c].request)
             entry == calls[c].content
         IN /\ calls[c].pc = "cache_set"
            /\ store' = SetJson(store, key, entry)
            /\ calls' = [d \in Calls |->
                 IF d = c
                 THEN IF EstimateTokensRaises(entry.data)
                      THEN [calls[c] EXCEPT !.pc = "done", !.result = "raised",
                                            !.written = entry, !.cache_writes = @ + 1]
                      ELSE [calls[c] EXCEPT !.pc = "done", !.result = "ok",
                                            !.written = entry, !.cache_writes = @ + 1,
                                            !.returned = entry, !.api_usage = @ + 1]
                 ELSE IF /\ calls[d].written # NoEntry
                         /\ CacheKeyOf(calls[d].request) = key
                      THEN [calls[d] EXCEPT !.overwritten = TRUE]
                      ELSE calls[d]]
    /\ UNCHANGED <<generated, otherWrites, notContentVars>>

\* the generate_tour_content call of another background execution, which
\* missed the cache earlier, stores its result (cache.set_json)
OtherCallStores ==
    /\ otherWrites < MaxOtherWrites
    /\ \E key \in ContentKeys, outcome \in ContentResponses :
         LET r == GenerateTourContentWithProvider(key.provider, outcome)
         IN /\ r.ok
            /\ ~EstimateTokensRaises(r.data)
            /\ store' = SetJson(store, key,
                                [data |-> r.data, generation_timestamp |-> generated + 1])
            /\ calls' = [d \in Calls |->
                 IF calls[d].written # NoEntry /\ CacheKeyOf(calls[d].request) = key
                 THEN [calls[d] EXCEPT !.overwritten = TRUE]
                 ELSE calls[d]]
    /\ generated' = generated + 1
    /\ otherWrites' = otherWrites + 1
    /\ UNCHANGED notContentVars

\* the time to live of an entry (settings.CACHE_TTL_TOUR_CONTENT) runs out
ContentExpires ==
    /\ \E key \in ContentKeys :
         /\ store[key] # NoEntry
         /\ store' = [store EXCEPT ![key] = NoEntry]
         /\ calls' = [d \in Calls |->
              IF calls[d].written # NoEntry /\ CacheKeyOf(calls[d].request) = key
              THEN [calls[d] EXCEPT !.expired = TRUE]
              ELSE calls[d]]
    /\ UNCHANGED <<generated, otherWrites, notContentVars>>

NextContent ==
    \/ StartCall
    \/ ContentCacheGet
    \/ ContentCallPrimary
    \/ ContentCallFallback
    \/ ContentCacheSet
    \/ OtherCallStores
    \/ ContentExpires

SpecContent == InitContent /\ [][NextContent]_<<contentVars, notContentVars>>

\* two requests differ at most in the order of their interests
IsPermutation(a, b) ==
    /\ Len(a) = Len(b)
    /\ \A x \in RangeOf(a) \cup RangeOf(b) :
         Cardinality({ i \in 1..Len(a) : a[i] = x })
           = Cardinality({ i \in 1..Len(b) : b[i] = x })

SameParameters(r1, r2) ==
    /\ r1.location = r2.location
    /\ r1.duration_minutes = r2.duration_minutes
    /\ r1.language = r2.language
    /\ r1.narration_style = r2.narration_style
    /\ r1.provider = r2.provider
    /\ IsPermutation(r1.interests, r2.interests)

PastLookup(c) == calls[c].pc \notin {"idle", "cache_get"}

\* C11: when the content cache holds an entry under the request's key at the
\* lookup, generate_tour_content returns that entry unchanged, makes no
\* provider call, writes nothing to the content cache, records no API usage
\* and records exactly one cache hit.
C11_CacheHitFrame ==
    \A c \in Calls :
        (PastLookup(c) /\ calls[c].seen # NoEntry) =>
            /\ calls[c].pc = "done"
            /\ calls[c].result = "hit"
            /\ calls[c].returned = calls[c].seen
            /\ calls[c].provider_calls = 0
            /\ calls[c].cache_writes = 0
            /\ calls[c].written = NoEntry
            /\ calls[c].api_usage = 0
            /\ calls[c].cache_hits = 1

C11_Witness ==
    \E c \in Calls :
        /\ calls[c].result = "hit"
        /\ calls[c].seen # NoEntry
        /\ calls[c].cache_hits = 1

\* earlier calls whose stored result a later call c must find: they returned
\* before c started, had the same parameters up to the order of the
\* interests, and their entry has not expired
Predecessors(c) ==
    { a \in calls[c].after :
        /\ calls[a].result = "ok"
        /\ SameParameters(calls[a].request, calls[c].request)
        /\ ~calls[a].expired }

\* C12 as stated: a later call with the same parameters, made before the
\* entry expires, returns the same result as the earlier successful call,
\* with no provider call; when both providers fail nothing is written.
C12_LaterCallSameResult ==
    /\ \A c \in Calls : PastLookup(c) =>
         \A a \in Predecessors(c) :
            /\ calls[c].result = "hit"
            /\ calls[c].provider_calls = 0
            /\ calls[c].returned = calls[a].returned
    /\ \A c \in Calls : calls[c].result = "both_failed" =>
            calls[c].cache_writes = 0 /\ calls[c].written = NoEntry

\* C12, amended: the result of a successful miss is stored under the key; a
\* later call with the same parameters, made before the entry expires, is a
\* cache hit without provider calls and returns the entry then stored under
\* the key, which is the earlier call's result unless another call stored
\* its own result under the key in between; when both providers fail nothing
\* is written.
C12_LaterCallHits ==
    /\ \A a \in Calls : calls[a].result = "ok" =>
         /\ calls[a].written = calls[a].returned
         /\ calls[a].cache_writes = 1
         /\ (~calls[a].expired /\ ~calls[a].overwritten) =>
                store[CacheKeyOf(calls[a].request)] = calls[a].returned
    /\ \A c \in Calls : PastLookup(c) =>
         \A a \in Predecessors(c) :
            /\ calls[c].result = "hit"
            /\ calls[c].provider_calls = 0
            /\ calls[c].returned = calls[c].seen
            /\ ~calls[a].overwritten => calls[c].returned = calls[a].returned
    /\ \A c \in Calls : calls[c].result = "both_failed" =>
            calls[c].cache_writes = 0 /\ calls[c].written = NoEntry

\* a later call with the interests in the other order hit the earlier result
C12_Witness ==
    \E c \in Calls : \E a \in Predecessors(c) :
        /\ calls[c].result = "hit"
        /\ calls[c].request.interests # calls[a].request.interests
        /\ calls[c].returned = calls[a].returned

(***************************************************************************)
(* AIService._create_content_cache_key as a function of its arguments.     *)
(***************************************************************************)
\* largest number of interests in a request
MaxInterests == 2

InterestIds == {1, 2, 3}

\* the interest lists of at most n entries
RECURSIVE InterestLists(_)
InterestLists(n) ==
    IF n = 0 THEN {<<>>}
    ELSE InterestLists(n - 1) \cup
         { Append(list, x) : list \in { l \in InterestLists(n - 1) : Len(l) = n - 1 },
                             x \in InterestIds }

\* "history,culture", the interests of the prompt of a request without
\* interests (0 = "culture")
DefaultInterests == <<2, 0>>

\* interests[:3]
FirstThree(interests) == SubSeq(interests, 1, IF Len(interests) < 3 THEN Len(interests) ELSE 3)

\* AIService._create_optimized_prompt: the parts of the template that depend
\* on the arguments (the city is a field of the location)
CreateOptimizedPrompt(location, interests, duration_minutes, language, narration_style) ==
    [duration |-> duration_minutes,
     location_name |-> location.name,
     interests_text |-> IF interests # <<>> THEN FirstThree(interests) ELSE DefaultInterests,
     language |-> language,
     narration_style |-> narration_style]

PromptOf(request) ==
    CreateOptimizedPrompt(request.location, request.interests,
                          request.duration_minutes, request.language,
                          request.narration_style)

\* the first request of a pair: fixed parameters, any interests
BaseRequests ==
    [location : {[id |-> "loc-1", name |-> "Louvre"]},
     interests : InterestLists(MaxInterests),
     duration_minutes : {30},
     language : {"en"},
     narration_style : {"conversational"},
     provider : {"openai"}]

\* the second request of a pair: any parameters
KeyRequests ==
    [location : [id : {"loc-1", "loc-2"}, name : {"Louvre", "Orsay"}],
     interests : InterestLists(MaxInterests),
     duration_minutes : {30, 60},
     language : {"en", "fr"},
     narration_style : {"conversational", "dramatic"},
     provider : LLMProvider]

InitKey ==
    /\ keyRequests \in BaseRequests \X KeyRequests
    /\ keyResults = <<CacheKeyOf(NoRequest), CacheKeyOf(NoRequest)>>
    /\ keysComputed = FALSE
    /\ keyPrompts = <<PromptOf(NoRequest), PromptOf(NoRequest)>>
    /\ IdleExcept("key")

\* both keys are computed, and the prompt each request sends on a miss
ComputeKeys ==
    /\ ~keysComputed
    /\ keyResults' = <<CacheKeyOf(keyRequests[1]), CacheKeyOf(keyRequests[2])>>
    /\ keyPrompts' = <<PromptOf(keyRequests[1]), PromptOf(keyRequests[2])>>
    /\ keysComputed' = TRUE
    /\ UNCHANGED <<keyRequests, notKeyVars>>

NextKey ==
    \/ ComputeKeys

SpecKey == InitKey /\ [][NextKey]_<<keyVars, notKeyVars>>

\* C13: _create_content_cache_key returns the same key for two requests whose
\* interest lists are permutations of each other and whose other parameters
\* are equal, and different keys when the location id, the location name, the
\* duration, the language, the narration style or the provider differs.
C13_KeyPermutationInvariant ==
    keysComputed =>
        LET a == keyRequests[1]
            b == keyRequests[2]
        IN /\ SameParameters(a, b) => keyResults[1] = keyResults[2]
           /\ ( \/ a.location.id # b.location.id
                \/ a.location.name # b.location.name
                \/ a.duration_minutes # b.duration_minutes
                \/ a.language # b.language
                \/ a.narration_style # b.narration_style
                \/ a.provider # b.provider ) => keyResults[1] # keyResults[2]

\* two different orders of the same interests got the same key
C13_Witness ==
    /\ keysComputed
    /\ SameParameters(keyRequests[1], keyRequests[2])
    /\ keyRequests[1].interests # keyRequests[2].interests
    /\ keyResults[1] = keyResults[2]

\* C39: two requests with the same content cache key build the same provider
\* prompt.
C39_SameKeySamePrompt ==
    (keysComputed /\ keyResults[1] = keyResults[2]) => keyPrompts[1] = keyPrompts[2]

(***************************************************************************)
(* TourService._chunk_text_for_tts, one action per loop iteration.  A text *)
(* is a sequence of characters over a letter, a sentence terminator, a     *)
(* space and a newline.                                                    *)
(***************************************************************************)
\* longest text
MaxTextLen == 7
\* largest max_chunk_size
MaxChunkSize == 6
\* longest free ending of a text that begins with LongPrefix
MaxTail == 5

Chars == {"a", ".", " ", "\n"}

\* the texts of at most n characters
RECURSIVE Texts(_)
Texts(n) ==
    IF n = 0 THEN {<<>>}
    ELSE Texts(n - 1) \cup
         { Append(t, c) : t \in { u \in Texts(n - 1) : Len(u) = n - 1 }, c \in Chars }

\* texts with a chunk window wide enough for two kinds of break to qualify
\* at different places: a run of letters, then any ending
LongPrefix == <<"a", "a", "a", "a", "a", "a">>

LongTexts == { LongPrefix \o t : t \in Texts(MaxTail) }

\* the max_chunk_size the long texts are chunked with
LongChunkSize == Len(LongPrefix) + 4

\* str.strip() removes leading and trailing whitespace
IsSpace(c) == c \in {" ", "\n"}

RECURSIVE LStrip(_)
LStrip(t) == IF t # <<>> /\ IsSpace(Head(t)) THEN LStrip(Tail(t)) ELSE t

RECURSIVE RStrip(_)
RStrip(t) ==
    IF t # <<>> /\ IsSpace(t[Len(t)]) THEN RStrip(SubSeq(t, 1, Len(t) - 1)) ELSE t

Strip(t) == RStrip(LStrip(t))

\* str.rfind of a character: index from 0, or -1
PyRFind(t, c) == RFind(t, c) - 1

\* str.rfind of a substring: index from 0, or -1
PyRFindSub(t, sub) ==
    LET at == { i \in 0..(Len(t) - Len(sub)) : SubSeq(t, i + 1, i + Len(sub)) = sub }
    IN IF at = {} THEN -1 ELSE CHOOSE i \in at : \A j \in at : j <= i

MaxOf(set) == CHOOSE x \in set : \A y \in set : y <= x

SplitPoint_AnyTerminator(chunk, max) ==
    LET sentence_break == MaxOf({PyRFind(chunk, "."), PyRFind(chunk, "!"),
                                 PyRFind(chunk, "?")})
        last_double_newline == PyRFindSub(chunk, <<"\n", "\n">>)
        last_space == PyRFind(chunk, " ")
    IN IF sentence_break > 0
       THEN sentence_break + 1
       ELSE IF last_double_newline > (max * 5) \div 10
            THEN last_double_newline + 2
            ELSE IF last_space > (max * 8) \div 10 THEN last_space ELSE max

\* the split point chosen for a chunk of max_chunk_size characters: after
\* the last sentence terminator beyond 60 %, else after the last paragraph
\* break beyond 50 %, else at the last space beyond 80 %, else a hard cut
SplitPoint(chunk, max) ==
    LET sentence_break == MaxOf({PyRFind(chunk, "."), PyRFind(chunk, "!"),
                                 PyRFind(chunk, "?")})
        last_double_newline == PyRFindSub(chunk, <<"\n", "\n">>)
        last_space == PyRFind(chunk, " ")
    IN IF sentence_break > (max * 6) \div 10
       THEN sentence_break + 1
       ELSE IF last_double_newline > (max * 5) \div 10
            THEN last_double_newline + 2
            ELSE IF last_space > (max * 8) \div 10 THEN last_space ELSE max

InitChunk ==
    /\ \/ /\ chunkText \in Texts(MaxTextLen)
          /\ max_chunk_size \in 1..MaxChunkSize
       \/ /\ chunkText \in LongTexts
          /\ max_chunk_size = LongChunkSize
    /\ remaining_text = <<>>
    /\ chunks = <<>>
    /\ chunkPc = "start"
    /\ chunkResult = <<>>
    /\ IdleExcept("chunk")

\* a text that fits is returned as the only chunk; else the loop starts
ChunkStart ==
    /\ chunkPc = "start"
    /\ IF Len(chunkText) <= max_chunk_size
       THEN /\ chunkResult' = <<chunkText>>
            /\ chunkPc' = "done"
            /\ UNCHANGED <<remaining_text, chunks>>
       ELSE /\ remaining_text' = chunkText
            /\ chunks' = <<>>
            /\ chunkPc' = "loop"
            /\ UNCHANGED chunkResult
    /\ UNCHANGED <<chunkText, max_chunk_size, notChunkVars>>

\* one iteration of `while remaining_text:`
ChunkLoop ==
    /\ chunkPc = "loop"
    /\ IF remaining_text = <<>>
       THEN /\ chunkPc' = "filter"
            /\ UNCHANGED <<remaining_text, chunks>>
       ELSE IF Len(remaining_text) <= max_chunk_size
       THEN /\ chunks' = Append(chunks, remaining_text)
            /\ chunkPc' = "filter"
            /\ UNCHANGED remaining_text
       ELSE LET chunk == SubSeq(remaining_text, 1, max_chunk_size)
                split_point == SplitPoint(chunk, max_chunk_size)
            IN /\ chunks' = Append(chunks, Strip(SubSeq(remaining_text, 1, split_point)))
               /\ remaining_text' =
                     Strip(SubSeq(remaining_text, split_point + 1, Len(remaining_text)))
               /\ UNCHANGED chunkPc
    /\ UNCHANGED <<chunkText, max_chunk_size, chunkResult, notChunkVars>>

\* return [chunk for chunk in chunks if chunk]
ChunkReturn ==
    /\ chunkPc = "filter"
    /\ chunkResult' = SelectSeq(chunks, LAMBDA chunk : chunk # <<>>)
    /\ chunkPc' = "done"
    /\ UNCHANGED <<chunkText, max_chunk_size, remaining_text, chunks, notChunkVars>>

NextChunk ==
    \/ ChunkStart
    \/ ChunkLoop
    \/ ChunkReturn

SpecChunk == InitChunk /\ [][NextChunk]_<<chunkVars, notChunkVars>>

AllSpace(t) == \A i \in 1..Len(t) : IsSpace(t[i])

\* t is the concatenation of the pieces with whitespace before, between and
\* after them
RECURSIVE Rejoins(_, _)
Rejoins(t, pieces) ==
    IF pieces = <<>> THEN AllSpace(t)
    ELSE \E k \in 0..(Len(t) - Len(Head(pieces))) :
            /\ AllSpace(SubSeq(t, 1, k))
            /\ SubSeq(t, k + 1, k + Len(Head(pieces))) = Head(pieces)
            /\ Rejoins(SubSeq(t, k + Len(Head(pieces)) + 1, Len(t)), Tail(pieces))

\* C14: for every text and every positive max_chunk_size the chunks returned
\* are non-empty, none is longer than max_chunk_size, and their in-order
\* concatenation is the text except for whitespace removed at chunk
\* boundaries; every loop iteration shortens the remaining text.
C14_ChunksCoverText ==
    /\ chunkPc = "done" =>
         /\ \A i \in 1..Len(chunkResult) :
               /\ chunkResult[i] # <<>>
               /\ Len(chunkResult[i]) <= max_chunk_size
         /\ Rejoins(chunkText, chunkResult)
    /\ chunkPc = "loop" =>
         Len(remaining_text) + Len(chunks) <= Len(chunkText)

\* the places (indexes from 0) of a window at which a character of `set`
\* stands, and the places where a paragraph break begins
PlacesOf(window, set) == { i \in 0..(Len(window) - 1) : window[i + 1] \in set }

ParagraphBreaks(window) ==
    { i \in 0..(Len(window) - 2) : window[i + 1] = "\n" /\ window[i + 2] = "\n" }

LastPlace(places) == IF places = {} THEN -1 ELSE MaxOf(places)

\* where a window of `limit` characters is to be cut: just after its last
\* sentence terminator if that lies beyond 60 % of the limit; otherwise just
\* after its last paragraph break if that lies beyond 50 %; otherwise at its
\* last space if that lies beyond 80 %; otherwise at the limit
ExpectedCut(window, limit) ==
    LET terminator == LastPlace(PlacesOf(window, {".", "!", "?"}))
        paragraph == LastPlace(ParagraphBreaks(window))
        space == LastPlace(PlacesOf(window, {" "}))
    IN CASE terminator * 10 > limit * 6 -> terminator + 1
         [] terminator * 10 <= limit * 6 /\ paragraph * 10 > limit * 5 -> paragraph + 2
         [] terminator * 10 <= limit * 6 /\ paragraph * 10 <= limit * 5
              /\ space * 10 > limit * 8 -> space
         [] OTHER -> limit

\* C32: every chunk taken from a remaining text longer than the limit is
\* the window of limit characters cut just after its last sentence
\* terminator when that lies beyond 60 % of the limit, otherwise just after
\* its last paragraph break when that lies beyond 50 %, otherwise at its last
\* space when that lies beyond 80 %, otherwise at exactly the limit; the
\* rest of the text continues from that cut.
C32_BreakPriority ==
    [][(chunkPc = "loop" /\ Len(remaining_text) > max_chunk_size) =>
          LET cut == ExpectedCut(SubSeq(remaining_text, 1, max_chunk_size),
                                 max_chunk_size)
          IN /\ chunks' = Append(chunks, Strip(SubSeq(remaining_text, 1, cut)))
             /\ remaining_text' =
                   Strip(SubSeq(remaining_text, cut + 1, Len(remaining_text)))]_chunkVars

\* a window in which a sentence terminator and a later space both qualify
\* has been cut after the terminator
C32_Witness ==
    /\ chunkPc = "loop"
    /\ max_chunk_size = LongChunkSize
    /\ chunkText = LongPrefix \o <<"a", ".", "a", " ", "a">>
    /\ chunks = << LongPrefix \o <<"a", ".">> >>
    /\ remaining_text = <<"a", " ", "a">>

(***************************************************************************)
(* Properties of the pipeline: synthesis of long content, the happy path.  *)
(***************************************************************************)
\* the execution has ended without a persistence failure and nobody has
\* deleted or is deleting the tour
EndedUndisturbed ==
    /\ pc = "done"
    /\ ~dbFailed
    /\ dbFailures = 0
    /\ ~deleted
    /\ deletePc = "idle"
    /\ dbTour.exists

\* C15: when the generated content is longer than 4000 characters and no
\* synthesis call fails, the tour ends ready with a non-empty audio reference
\* and the synthesized audio in the cache under the tour's audio key.
C15_LongContentSynthesized ==
    (EndedUndisturbed /\ content_data.content = "long" /\ ttsResult # "timeout") =>
        /\ dbTour.status = "ready"
        /\ dbTour.audio_url = "url"
        /\ audioCache

Infinity == -1

Abs(x) == IF x < 0 THEN -x ELSE x

\* dict.get(key, default)
Get(dict, key, default) == IF key \in DOMAIN dict THEN dict[key] ELSE default

\* the Haversine formula for two points on one meridian
Haversine(lat1, lon1, lat2, lon2) == Abs(lat1 - lat2)

\* _calculate_walking_distance(loc1, loc2): loc1 is read through its
\* 'coordinates' or 'latitude'/'longitude', loc2 through 'lat'/'lng'; a
\* point (0, 0) counts as invalid.  Unpacking coordinates that are None
\* raises TypeError.
CalculateWalkingDistance(loc1, loc2) ==
    IF "coordinates" \in DOMAIN loc1 /\ loc1["coordinates"] = <<>>
    THEN [raised |-> TRUE, value |-> 0]
    ELSE LET p1 == IF "coordinates" \in DOMAIN loc1
                   THEN loc1["coordinates"]
                   ELSE <<Get(loc1, "latitude", 0), Get(loc1, "longitude", 0)>>
             p2 == <<Get(loc2, "lat", 0), Get(loc2, "lng", 0)>>
         IN [raised |-> FALSE,
             value |-> IF p1 = <<0, 0>> \/ p2 = <<0, 0>>
                       THEN Infinity
                       ELSE Haversine(p1[1], p1[2], p2[1], p2[2])]

RECURSIVE SumOf(_)
SumOf(seq) == IF seq = <<>> THEN 0 ELSE Head(seq) + SumOf(Tail(seq))

\* total_distance <= max_total_distance and max_leg_distance <= 500
IsFeasible_Strict(total_distance, max_leg_distance, max_total_distance) ==
    total_distance < max_total_distance /\ max_leg_distance < 500

IsFeasible(total_distance, max_leg_distance, max_total_distance) ==
    total_distance <= max_total_distance /\ max_leg_distance <= 500

\* the legs _validate_walking_feasibility computes, in route order
LegsOf(route) ==
    [i \in 1..(Len(route) - 1) |-> CalculateWalkingDistance(route[i], route[i + 1])]

\* _validate_walking_feasibility(route_locations, max_total_distance)
ValidateWalkingFeasibility(route, max_total_distance) ==
    IF Len(route) < 2
    THEN [raised |-> FALSE, is_feasible |-> TRUE, total_distance |-> 0,
          max_leg_distance |-> 0, legs |-> 0]
    ELSE LET legs == LegsOf(route)
             leg_distances ==
                 SelectSeq([i \in 1..Len(legs) |-> legs[i].value],
                           LAMBDA leg_distance : leg_distance # Infinity)
             total_distance == SumOf(leg_distances)
             max_leg_distance ==
                 IF leg_distances = <<>> THEN 0 ELSE MaxOf(RangeOf(leg_distances))
         IN IF \E i \in 1..Len(legs) : legs[i].raised
            THEN [raised |-> TRUE, is_feasible |-> FALSE, total_distance |-> 0,
                  max_leg_distance |-> 0, legs |-> 0]
            ELSE [raised |-> FALSE,
                  is_feasible |-> IsFeasible(total_distance, max_leg_distance,
                                             max_total_distance),
                  total_distance |-> total_distance,
                  max_leg_distance |-> max_leg_distance,
                  legs |-> Len(leg_distances)]

NoFeasibility ==
    [raised |-> FALSE, is_feasible |-> FALSE, total_distance |-> 0,
     max_leg_distance |-> 0, legs |-> 0]

(***************************************************************************)
(* TranscriptGenerator: estimate_audio_duration, _split_content_into_      *)
(* segments and generate_transcript_segments.  A content is the sequence   *)
(* of its paragraphs (the parts between blank lines); of a text only what  *)
(* the timing depends on is kept: its length after strip(), its number of  *)
(* words, and for a paragraph of more than 200 characters its sentences    *)
(* with their comma-separated phrases.  Times are in milliseconds.        *)
(***************************************************************************)
\* largest number of paragraphs of a content
MaxParagraphs == 3

Sentence(len, phrases) == [len |-> len, phrases |-> phrases]

Paragraph(len, words, sentences) ==
    [len |-> len, words |-> words, sentences |-> sentences]

Paragraphs ==
    { Paragraph(0, 0, <<>>),                       \* only whitespace
      Paragraph(5, 1, <<>>),                       \* shorter than 10 characters
      Paragraph(18, 3, <<>>),
      Paragraph(120, 20, <<>>),
      Paragraph(250, 1, <<>>),                     \* only punctuation
      Paragraph(250, 40,
                << Sentence(120, <<>>), Sentence(8, <<>>), Sentence(118, <<>>) >>),
      Paragraph(330, 50,
                << Sentence(320, <<150, 4, 160>>) >>) }

RECURSIVE Contents(_)
Contents(n) ==
    IF n = 0 THEN {<<>>}
    ELSE Contents(n - 1) \cup
         { Append(x[1], x[2]) :
             x \in { c \in Contents(n - 1) : Len(c) = n - 1 } \X Paragraphs }

\* lengths in bytes of the audio whose size the demo script divides by 16000
AudioLengths == {112048, 320000}

RECURSIVE SumWords(_)
SumWords(text) ==
    IF text = <<>> THEN 0 ELSE text[1].words + SumWords(Tail(text))

\* len(content.split()) / words_per_minute * 60, in milliseconds
EstimateAudioDuration(text, words_per_minute) ==
    (SumWords(text) * 60000) \div words_per_minute

RECURSIVE SentenceSegments(_)
SentenceSegments(sentences) ==
    IF sentences = <<>> THEN <<>>
    ELSE LET s == sentences[1]
         IN (IF s.len > 300 THEN s.phrases ELSE <<s.len>>)
            \o SentenceSegments(Tail(sentences))

RECURSIVE ParagraphSegments(_)
ParagraphSegments(paragraphs) ==
    IF paragraphs = <<>> THEN <<>>
    ELSE LET p == paragraphs[1]
         IN (IF p.len <= 200 THEN <<p.len>> ELSE SentenceSegments(p.sentences))
            \o ParagraphSegments(Tail(paragraphs))

\* segments of fewer than 10 characters are joined to the segment before
\* them with a space in between
RECURSIVE FilterSegments(_, _)
FilterSegments(segments, filtered_segments) ==
    IF segments = <<>> THEN filtered_segments
    ELSE LET segment == segments[1]
             n == Len(filtered_segments)
         IN FilterSegments(
              Tail(segments),
              IF segment < 10 /\ filtered_segments # <<>>
              THEN [filtered_segments EXCEPT ![n] = filtered_segments[n] + 1 + segment]
              ELSE Append(filtered_segments, segment))

\* _split_content_into_segments: the lengths of the segments
SplitContentIntoSegments(text) ==
    FilterSegments(
        ParagraphSegments(SelectSeq(text, LAMBDA p : p.len > 0)), <<>>)

\* round(x, 2) of x = num / den milliseconds, to the nearest 10 ms
Round2(num, den) == ((num + 5 * den) \div (10 * den)) * 10

\* the minimum segment duration of 2 seconds
MinSegmentDuration == 2000

\* max(estimated_duration_seconds * segment_ratio, 2.0), in units of
\* 1/total_chars milliseconds
SegmentDuration(len, duration, total_chars) ==
    MaxOf({duration * len, MinSegmentDuration * total_chars})

\* current_time before segment k, in units of 1/total_chars milliseconds
RECURSIVE CurrentTime(_, _, _, _)
CurrentTime(segments, k, duration, total_chars) ==
    IF k = 1 THEN 0
    ELSE CurrentTime(segments, k - 1, duration, total_chars)
         + SegmentDuration(segments[k - 1], duration, total_chars)

GenerateTranscriptSegments(text, duration) ==
    LET segments == SplitContentIntoSegments(text)
        total_chars == SumOf(segments)
        n == Len(segments)
        timed == [k \in 1..n |->
                    LET current_time == CurrentTime(segments, k, duration, total_chars)
                        segment_duration ==
                            SegmentDuration(segments[k], duration, total_chars)
                    IN [startTime |-> Round2(current_time, total_chars),
                        endTime |-> Round2(current_time + segment_duration, total_chars),
                        chars |-> segments[k]]]
    IN IF segments = <<>> THEN <<>>
       ELSE [timed EXCEPT ![n].endTime = Round2(duration, 1)]

InitTranscript ==
    /\ trContent \in Contents(MaxParagraphs)
    /\ estimated_duration = 0
    /\ trSegments = <<>>
    /\ trPc = "start"
    /\ IdleExcept("transcript")

\* the pipeline estimates the duration from the words of the content
EstimateDuration ==
    /\ trPc = "start"
    /\ estimated_duration' = EstimateAudioDuration(trContent, 150)
    /\ trPc' = "estimated"
    /\ UNCHANGED <<trContent, trSegments, notTranscriptVars>>

\* the demo script estimates it from the size of the audio
EstimateFromAudio ==
    /\ trPc = "start"
    /\ \E audio_length \in AudioLengths :
         estimated_duration' = audio_length \div 16
    /\ trPc' = "estimated"
    /\ UNCHANGED <<trContent, trSegments, notTranscriptVars>>

GenerateSegments ==
    /\ trPc = "estimated"
    /\ trSegments' = GenerateTranscriptSegments(trContent, estimated_duration)
    /\ trPc' = "done"
    /\ UNCHANGED <<trContent, estimated_duration, notTranscriptVars>>

NextTranscript ==
    \/ EstimateDuration
    \/ EstimateFromAudio
    \/ GenerateSegments

SpecTranscript ==
    InitTranscript /\ [][NextTranscript]_<<transcriptVars, notTranscriptVars>>

\* the duration a segment of `len` of `total` characters is to get: its
\* share of the estimate, and at least 2 seconds (to the millisecond)
AllocatedDuration(len, total, duration) ==
    LET share == (duration * len) \div total
    IN IF share < 2000 THEN 2000 ELSE share

RECURSIVE TotalChars(_)
TotalChars(segments) ==
    IF segments = <<>> THEN 0 ELSE segments[1].chars + TotalChars(Tail(segments))

\* C17: for a non-empty content the segments start at 0, end at the estimated
\* duration exactly, and every segment lasts its character share of the
\* estimate, at least 2 seconds (within the rounding to hundredths of a
\* second at both ends).
C17_TranscriptTiming ==
    (trPc = "done" /\ \E p \in 1..Len(trContent) : trContent[p].len > 0) =>
        /\ trSegments # <<>>
        /\ trSegments[1].startTime = 0
        /\ trSegments[Len(trSegments)].endTime = estimated_duration
        /\ \A k \in 1..Len(trSegments) :
             Abs((trSegments[k].endTime - trSegments[k].startTime)
                 - AllocatedDuration(trSegments[k].chars,
                                     TotalChars(trSegments),
                                     estimated_duration)) <= 10

\* C37: every returned list of segments is well-formed in time: each segment
\* starts at or after 0 and ends after it starts, and each segment starts
\* where the segment before it ends, the last segment (whose end is set to
\* the estimated duration) included.
C37_SegmentsWellFormed ==
    trPc = "done" =>
        \A k \in 1..Len(trSegments) :
            /\ trSegments[k].startTime >= 0
            /\ trSegments[k].endTime > trSegments[k].startTime
            /\ k > 1 => trSegments[k].startTime = trSegments[k - 1].endTime

(***************************************************************************)
(* TourService._process_walkable_tour_content with _geocode_stop, and the  *)
(* saving of the stops it returns (_save_walkable_stops).                  *)
(***************************************************************************)
\* largest number of entries of walkable_stops
MaxCandidates == 2

\* entries of walkable_stops: dictionaries with a name (one of them
\* venue-like), a dictionary without a name, an entry that is no dictionary
CandidateStops ==
    { [is_dict |-> TRUE, name |-> "Cafe"],
      [is_dict |-> TRUE, name |-> "Rose Garden"],
      [is_dict |-> TRUE, name |-> ""],
      [is_dict |-> FALSE, name |-> ""] }

RECURSIVE StopLists(_)
StopLists(n) ==
    IF n = 0 THEN {<<>>}
    ELSE StopLists(n - 1) \cup
         { Append(x[1], x[2]) :
             x \in { l \in StopLists(n - 1) : Len(l) = n - 1 } \X CandidateStops }

\* the anchor as _get_location builds it: with coordinates, or with
\* coordinates None when the location has no latitude and longitude
MainLocations ==
    { [name |-> "Louvre", city |-> "Paris", coordinates |-> <<100, 0>>],
      [name |-> "Louvre", city |-> "Paris", coordinates |-> <<>>] }

\* latitudes of the places the search service knows (longitude 0)
Places == {0, 300, 900}

\* isinstance(stop, dict) and stop.get('name')
IsValidStop_Any(stop) == TRUE

IsValidStop(stop) == stop.is_dict /\ stop.name # ""

\* number of query variants of a stop: three, and two broader ones for
\* venue-like names
QueryVariants(stop) == IF stop.name = "Rose Garden" THEN 5 ELSE 3

\* what the search service does for the queries of one stop: `misses`
\* queries return no result, then one returns a place or raises, or all
\* variants return no result
GeocodeOutcomes(variants) ==
    { [misses |-> variants, last |-> "none", place |-> 0] } \cup
    [misses : 0..(variants - 1), last : {"raise"}, place : {0}] \cup
    [misses : 0..(variants - 1), last : {"result"}, place : Places]

NotGeocoded == [misses |-> 0, last |-> "not_called", place |-> 0]

\* _geocode_stop: the coordinates of the first result, or None
CoordinatesOf(outcome) ==
    IF outcome.last = "result"
    THEN [lat |-> outcome.place, lng |-> 0, accuracy |-> "geocoded"]
    ELSE <<>>

\* "distance_from_main": self._calculate_walking_distance(location, coordinates)
DistanceFromMain_FromPrevious(location, geocoded, coordinates) ==
    IF geocoded = <<>>
    THEN CalculateWalkingDistance(location, coordinates)
    ELSE CalculateWalkingDistance(geocoded[Len(geocoded)], coordinates)

DistanceFromMain(location, geocoded, coordinates) ==
    CalculateWalkingDistance(location, coordinates)

InitStops ==
    /\ main_location \in MainLocations
    /\ walkable_stops \in
         [is_list : {TRUE}, items : StopLists(MaxCandidates)] \cup
         [is_list : {FALSE}, items : {<<>>}]
    /\ valid_stops = <<>>
    /\ stopI = 0
    /\ resolved_stops = <<>>
    /\ stopsPc = "start"
    /\ returned_stops = <<>>
    /\ persisted_stops = <<>>
    /\ geocodeLog = [i \in 1..Len(walkable_stops.items) |-> NotGeocoded]
    /\ feasibility = NoFeasibility
    /\ IdleExcept("stops")

\* the format check and the filter of invalid entries
FilterStops ==
    /\ stopsPc = "start"
    /\ LET items == walkable_stops.items
           valid == SelectSeq([i \in 1..Len(items) |-> i],
                              LAMBDA i : IsValidStop(items[i]))
       IN IF ~walkable_stops.is_list \/ items = <<>> \/ valid = <<>>
          THEN /\ returned_stops' = <<>>
               /\ stopsPc' = "save"
               /\ UNCHANGED <<valid_stops, stopI>>
          ELSE /\ valid_stops' = valid
               /\ stopI' = 1
               /\ stopsPc' = "loop"
               /\ UNCHANGED returned_stops
    /\ UNCHANGED <<main_location, walkable_stops, resolved_stops, persisted_stops,
                   geocodeLog, feasibility, notStopsVars>>

\* one round of the geocoding loop: _geocode_stop, then the stop with its
\* coordinates and its distance is appended; an exception drops the stop
GeocodeCandidate ==
    /\ stopsPc = "loop"
    /\ LET i == valid_stops[stopI]
           stop == walkable_stops.items[i]
       IN \E outcome \in GeocodeOutcomes(QueryVariants(stop)) :
            LET called == IF stop.is_dict THEN outcome ELSE NotGeocoded
                coordinates == CoordinatesOf(called)
                distance == IF coordinates = <<>>
                            THEN [raised |-> FALSE, value |-> 0]
                            ELSE DistanceFromMain(main_location, resolved_stops,
                                                  coordinates)
            IN /\ ~stop.is_dict => outcome.last = "none"
               /\ geocodeLog' = [geocodeLog EXCEPT ![i] = called]
               /\ resolved_stops' =
                    IF coordinates = <<>> \/ distance.raised
                    THEN resolved_stops
                    ELSE Append(resolved_stops,
                                [index |-> i,
                                 name |-> stop.name,
                                 latitude |-> coordinates.lat,
                                 longitude |-> coordinates.lng,
                                 geocoding_accuracy |-> coordinates.accuracy,
                                 distance_from_main |-> distance.value])
    /\ IF stopI < Len(valid_stops)
       THEN stopI' = stopI + 1 /\ UNCHANGED stopsPc
       ELSE stopsPc' = "feasibility" /\ UNCHANGED stopI
    /\ UNCHANGED <<main_location, walkable_stops, valid_stops, returned_stops,
                   persisted_stops, feasibility, notStopsVars>>

\* the feasibility check on [location] + geocoded_stops, whose result is only
\* logged, and the return of the stops
CheckFeasibility ==
    /\ stopsPc = "feasibility"
    /\ feasibility' =
         IF resolved_stops = <<>> THEN feasibility
         ELSE ValidateWalkingFeasibility(<<main_location>> \o resolved_stops, 2000)
    /\ returned_stops' = resolved_stops
    /\ stopsPc' = "save"
    /\ UNCHANGED <<main_location, walkable_stops, valid_stops, stopI, resolved_stops,
                   persisted_stops, geocodeLog, notStopsVars>>

\* back in _generate_tour_content_background: `if geocoded_stops:` the stops
\* are saved on the tour; a failure of the save is logged
SaveStops ==
    /\ stopsPc = "save"
    /\ \E saved \in BOOLEAN :
         persisted_stops' = IF returned_stops # <<>> /\ saved
                            THEN returned_stops ELSE persisted_stops
    /\ stopsPc' = "done"
    /\ UNCHANGED <<main_location, walkable_stops, valid_stops, stopI, resolved_stops,
                   returned_stops, geocodeLog, feasibility, notStopsVars>>

NextStops ==
    \/ FilterStops
    \/ GeocodeCandidate
    \/ CheckFeasibility
    \/ SaveStops

SpecStops == InitStops /\ [][NextStops]_<<stopsVars, notStopsVars>>

IndexesOf(stops) == { stops[k].index : k \in 1..Len(stops) }

\* C18: every persisted stop has a name and the latitude/longitude of a
\* geocoding query that returned a result; stops without a name, and stops
\* whose every query variant returned nothing or whose geocoding raised, are
\* never persisted; processing ends by returning a list whatever the
\* geocoding did.
C18_PersistedStopsResolved ==
    /\ \A k \in 1..Len(persisted_stops) :
         LET stop == persisted_stops[k]
             candidate == walkable_stops.items[stop.index]
             log == geocodeLog[stop.index]
         IN /\ candidate.is_dict
            /\ candidate.name # ""
            /\ stop.name = candidate.name
            /\ log.last = "result"
            /\ stop.latitude = log.place
            /\ stop.longitude = 0
    /\ \A i \in 1..Len(walkable_stops.items) :
         ( \/ ~walkable_stops.items[i].is_dict
           \/ walkable_stops.items[i].name = ""
           \/ geocodeLog[i].last # "result" ) =>
             i \notin IndexesOf(persisted_stops) \cup IndexesOf(returned_stops)
                        \cup IndexesOf(resolved_stops)
    /\ stopsPc \in {"start", "loop", "feasibility", "save", "done"}
    /\ stopsPc = "done" => returned_stops = resolved_stops

\* a named stop was persisted next to one that was dropped
C18_Witness ==
    /\ stopsPc = "done"
    /\ Len(persisted_stops) = 1
    /\ Len(walkable_stops.items) = 2
    /\ \E i \in 1..2 : geocodeLog[i].last \in {"none", "raise"}

\* the distance the claims expect between two latitudes of the model
ExpectedDistance(lat1, lat2) ==
    IF lat1 = 0 \/ lat2 = 0 THEN Infinity ELSE Abs(lat1 - lat2)

\* C19 as stated: the distance recorded on a resolved stop is the distance
\* from the previous resolved stop, and from the anchor for the first one.
C19_DistanceFromPrevious ==
    \A k \in 1..Len(resolved_stops) :
        resolved_stops[k].distance_from_main =
            IF k = 1
            THEN ExpectedDistance(main_location.coordinates[1], resolved_stops[k].latitude)
            ELSE ExpectedDistance(resolved_stops[k - 1].latitude,
                                  resolved_stops[k].latitude)

\* C19, amended: the distance recorded on every resolved stop is its distance
\* from the tour's anchor location (infinite when the stop's coordinates are
\* (0, 0)), for the first stop and for every later one.
C19_DistanceFromAnchor ==
    \A k \in 1..Len(resolved_stops) :
        resolved_stops[k].distance_from_main =
            ExpectedDistance(main_location.coordinates[1], resolved_stops[k].latitude)

\* two stops resolved to different places, the second farther from the
\* anchor than from the first
C19_Witness ==
    /\ Len(resolved_stops) = 2
    /\ resolved_stops[1].latitude = 300
    /\ resolved_stops[2].latitude = 900
    /\ resolved_stops[2].distance_from_main = 800

\* the latitudes of the route [anchor] + resolved stops
RoutePoints ==
    <<main_location.coordinates[1]>>
        \o [k \in 1..Len(resolved_stops) |-> resolved_stops[k].latitude]

\* the real distances between consecutive points of the route
RealLegs == [k \in 1..(Len(RoutePoints) - 1) |-> Abs(RoutePoints[k + 1] - RoutePoints[k])]

\* C34: for an anchor with coordinates and stops resolved to valid
\* coordinates, the feasibility check reports as total distance the sum of
\* the real distances between consecutive points of [anchor] + resolved
\* stops, and reports the route infeasible when one of these legs is longer
\* than 500 m or their sum exceeds 2000 m.
C34_FeasibilityUsesRealLegs ==
    ( /\ stopsPc \in {"save", "done"}
      /\ resolved_stops # <<>>
      /\ main_location.coordinates # <<>>
      /\ \A k \in 1..Len(resolved_stops) : resolved_stops[k].latitude # 0 ) =>
        /\ ~feasibility.raised
        /\ feasibility.total_distance = SumOf(RealLegs)
        /\ ( \/ \E k \in 1..Len(RealLegs) : RealLegs[k] > 500
             \/ SumOf(RealLegs) > 2000 ) => ~feasibility.is_feasible

(***************************************************************************)
(* TourService._geocode_stop, one action per round of its query loop.  A   *)
(* query is the sequence of the parts its f-string joins.                  *)
(***************************************************************************)
\* names of stops: plain, venue-like, descriptive, only whitespace
StopNames == {"Cafe", "Rose Garden", "Back to the Cafe", "Return to Rose Garden", " "}

Cities == {"Paris", ""}

Country == "France"

\* the name after "back to the " / "return to " is removed and the rest
\* title-cased
CleanedName(stop_name) ==
    CASE stop_name = "Back to the Cafe" -> "Cafe"
      [] stop_name = "Return to Rose Garden" -> "Rose Garden"
      [] OTHER -> stop_name

\* any(venue in cleaned_name.lower() for venue in park_venues)
IsParkVenue(cleaned_name) == cleaned_name = "Rose Garden"

SearchQueries_BareNameFirst(stop_name, city) ==
    LET cleaned_name == CleanedName(stop_name)
    IN << <<cleaned_name>>,
          <<cleaned_name, ", ", city>>,
          <<cleaned_name, ", ", city, ", ", Country>> >>
       \o (IF IsParkVenue(cleaned_name)
           THEN << <<cleaned_name, " near ", city>>,
                   <<cleaned_name, " ", city, " park">> >>
           ELSE <<>>)

\* search_queries
SearchQueries(stop_name, city) ==
    LET cleaned_name == CleanedName(stop_name)
    IN << <<cleaned_name, ", ", city>>,
          <<cleaned_name, ", ", city, ", ", Country>>,
          <<cleaned_name>> >>
       \o (IF IsParkVenue(cleaned_name)
           THEN << <<cleaned_name, " near ", city>>,
                   <<cleaned_name, " ", city, " park">> >>
           ELSE <<>>)

\* not query.strip()
IsBlankQuery(query) == \A k \in 1..Len(query) : query[k] \in {"", " "}

\* what search_locations answers: None, a dictionary without locations, a
\* dictionary with one location, or an exception
SearchResponses ==
    [kind : {"none", "no_locations", "raise"}, place : {0}] \cup
    [kind : {"locations"}, place : {300, 900}]

InitGeocode ==
    /\ gStop \in [name : StopNames, city : Cities]
    /\ gQueries = <<>>
    /\ gNext = 0
    /\ gIssued = <<>>
    /\ gReturn = <<>>
    /\ gPc = "start"
    /\ IdleExcept("geocode")

\* the name is cleaned and the list of queries built
BuildQueries ==
    /\ gPc = "start"
    /\ gQueries' = SearchQueries(gStop.name, gStop.city)
    /\ gNext' = 1
    /\ gPc' = "loop"
    /\ UNCHANGED <<gStop, gIssued, gReturn, notGeocodeVars>>

\* one round of `for query in search_queries`: a blank query is skipped; the
\* first response with a location is returned; an exception ends the
\* function with None
TryQuery ==
    /\ gPc = "loop"
    /\ gNext <= Len(gQueries)
    /\ LET query == gQueries[gNext]
       IN IF IsBlankQuery(query)
          THEN /\ gNext' = gNext + 1
               /\ UNCHANGED <<gIssued, gReturn, gPc>>
          ELSE \E search_result \in SearchResponses :
                 /\ gIssued' = Append(gIssued, [query |-> query,
                                                response |-> search_result])
                 /\ CASE search_result.kind = "locations" ->
                           /\ gReturn' = [lat |-> search_result.place, lng |-> 0,
                                          accuracy |-> "geocoded"]
                           /\ gPc' = "done"
                           /\ UNCHANGED gNext
                      [] search_result.kind = "raise" ->
                           /\ gPc' = "done"
                           /\ UNCHANGED <<gReturn, gNext>>
                      [] OTHER ->
                           /\ gNext' = gNext + 1
                           /\ UNCHANGED <<gReturn, gPc>>
    /\ UNCHANGED <<gStop, gQueries, notGeocodeVars>>

\* the loop has run out of queries: return None
NoQueryLeft ==
    /\ gPc = "loop"
    /\ gNext > Len(gQueries)
    /\ gPc' = "done"
    /\ UNCHANGED <<gStop, gQueries, gNext, gIssued, gReturn, notGeocodeVars>>

NextGeocode ==
    \/ BuildQueries
    \/ TryQuery
    \/ NoQueryLeft

SpecGeocode == InitGeocode /\ [][NextGeocode]_<<geocodeVars, notGeocodeVars>>

\* the variants of the claim for a place name, in its order; the broader two
\* only for a venue-like name
VariantsInOrder(name, city, venue) ==
    LET all == << <<name, ", ", city>>,
                  <<name, ", ", city, ", ", "France">>,
                  <<name>>,
                  <<name, " near ", city>>,
                  <<name, " ", city, " park">> >>
    IN IF venue THEN all ELSE SubSeq(all, 1, 3)

IsPrefixOf(s, t) == Len(s) <= Len(t) /\ s = SubSeq(t, 1, Len(s))

NoResult(response) == response.kind \in {"none", "no_locations"}

\* C33: the queries issued for a stop are, in this order, "name, city",
\* "name, city, country", the bare name and, for a venue-like name only, the
\* two broader variants (a variant that is blank is left out); no query
\* follows one that returned a result or raised; at most five are issued;
\* the coordinates returned are those of the first result, and None is
\* returned only if every variant was issued without result or a query
\* raised.
C33_FirstResultWins ==
    LET issued == [k \in 1..Len(gIssued) |-> gIssued[k].query]
        n == Len(gIssued)
    IN /\ \E name \in {"Cafe", "Rose Garden", " "} :
            IsPrefixOf(issued,
                       SelectSeq(VariantsInOrder(name, gStop.city, name = "Rose Garden"),
                                 LAMBDA q : q # <<" ">>))
       /\ n <= 5
       /\ \A k \in 1..(n - 1) : NoResult(gIssued[k].response)
       /\ gPc # "done" => gReturn = <<>>
       /\ gPc = "done" =>
            IF n > 0 /\ gIssued[n].response.kind = "locations"
            THEN gReturn = [lat |-> gIssued[n].response.place, lng |-> 0,
                            accuracy |-> "geocoded"]
            ELSE /\ gReturn = <<>>
                 /\ \/ n > 0 /\ gIssued[n].response.kind = "raise"
                    \/ /\ \A k \in 1..n : NoResult(gIssued[k].response)
                       /\ n = Len(SelectSeq(gQueries, LAMBDA q : ~IsBlankQuery(q)))
                       /\ n >= 2

\* a venue-like stop whose fourth query returned the first result
C33_Witness ==
    /\ gPc = "done"
    /\ gStop.name = "Rose Garden"
    /\ Len(gIssued) = 4
    /\ gIssued[3].response.kind = "no_locations"
    /\ gIssued[4].query = <<"Rose Garden", " near ", gStop.city>>
    /\ gReturn # <<>>
    /\ gReturn.lat = gIssued[4].response.place

(***************************************************************************)
(* TourService._validate_walking_feasibility as a function of the route.   *)
(***************************************************************************)
\* longest route
MaxRoute == 6

\* distance between consecutive route locations
Steps == {250, 500, 501}

\* a route location at a latitude: with all coordinate keys, or as the
\* stops of _process_walkable_tour_content are (no 'lat'/'lng')
LocationAt(shape, lat) ==
    IF shape = "full"
    THEN [latitude |-> lat, longitude |-> 0, lat |-> lat, lng |-> 0]
    ELSE [latitude |-> lat, longitude |-> 0]

\* latitude of a route location
LatitudeOf(loc) ==
    IF "coordinates" \in DOMAIN loc THEN loc["coordinates"][1] ELSE loc["latitude"]

\* the routes of at most n locations: an anchor, then locations one step on
RECURSIVE Routes(_)
Routes(n) ==
    IF n = 0 THEN {<<>>}
    ELSE IF n = 1
    THEN {<<>>} \cup { <<[coordinates |-> <<lat, 0>>]>> : lat \in {0, 1000} }
    ELSE Routes(n - 1) \cup
         { Append(x[1], LocationAt(x[2], LatitudeOf(x[1][Len(x[1])]) + x[3])) :
             x \in { r \in Routes(n - 1) : Len(r) = n - 1 } \X {"full", "stop"} \X Steps }

InitRoute ==
    /\ route_locations \in Routes(MaxRoute)
    /\ feasibilityResult = NoFeasibility
    /\ feasibilityDone = FALSE
    /\ IdleExcept("route")

\* the function is called with the default max_total_distance
ValidateRoute ==
    /\ ~feasibilityDone
    /\ feasibilityResult' = ValidateWalkingFeasibility(route_locations, 2000)
    /\ feasibilityDone' = TRUE
    /\ UNCHANGED <<route_locations, notRouteVars>>

NextRoute ==
    \/ ValidateRoute

SpecRoute == InitRoute /\ [][NextRoute]_<<routeVars, notRouteVars>>

\* the finite consecutive leg distances of the route
FiniteLegs ==
    { i \in 1..(Len(route_locations) - 1) :
        CalculateWalkingDistance(route_locations[i], route_locations[i + 1]).value
          # Infinity }

FiniteLeg(i) ==
    CalculateWalkingDistance(route_locations[i], route_locations[i + 1]).value

RECURSIVE SumOver(_)
SumOver(set) ==
    IF set = {} THEN 0
    ELSE LET i == CHOOSE j \in set : TRUE
         IN FiniteLeg(i) + SumOver(set \ {i})

\* C20: is_feasible is true iff the sum of the finite consecutive legs is at
\* most 2000 m and the largest finite leg is at most 500 m; a route of fewer
\* than two locations is feasible with total 0.
C20_FeasibilityBoundary ==
    feasibilityDone =>
        /\ ~feasibilityResult.raised
        /\ feasibilityResult.is_feasible <=>
              /\ SumOver(FiniteLegs) <= 2000
              /\ \A i \in FiniteLegs : FiniteLeg(i) <= 500
        /\ feasibilityResult.total_distance = SumOver(FiniteLegs)
        /\ Len(route_locations) < 2 =>
              /\ feasibilityResult.is_feasible
              /\ feasibilityResult.total_distance = 0

\* a route of total exactly 2000 m with largest leg exactly 500 m is feasible
C20_Witness ==
    /\ feasibilityDone
    /\ feasibilityResult.total_distance = 2000
    /\ feasibilityResult.max_leg_distance = 500
    /\ feasibilityResult.is_feasible

(***************************************************************************)
(* Stop stage and transcript stage of the background execution.            *)
(***************************************************************************)
\* the execution is past the stop stage
PastStopStage ==
    pc \in {"generate_audio", "cache_audio", "final_persist", "outer_except", "done"}
        /\ "content_ready" \in RangeOf(statusLog)

\* C21: no outcome of the stop stage or of the transcript stage is fatal.  The
\* execution reaches the outer except only through a persistence failure of
\* _save_content, _set_tour_error or the final update; when the checkpoint was
\* saved, none of these failed and the row still exists at the end, the tour
\* is ready, whatever the geocoding, the feasibility check, the save of the
\* stops and the transcript generation did.  Resolved stops are saved whatever
\* the feasibility check found, and a transcript without segments is
\* persisted as an empty list.
C21_StopAndTranscriptNotFatal ==
    /\ pc = "outer_except" => dbFailed
    /\ (pc = "done" /\ "content_ready" \in RangeOf(statusLog) /\ ~dbFailed /\ dbTour.exists)
         => dbTour.status = "ready"
    /\ (PastStopStage /\ geocoded_stops # <<>>) =>
         /\ stopStage.feasibility \in {"feasible", "infeasible", "raised"}
         /\ stopStage.save \in {"saved", "failed", "no_row"}
         /\ (stopStage.save = "saved" /\ dbTour.exists) =>
                dbTour.walkable_stops = geocoded_stops
    /\ (dbTour.exists /\ dbTour.status = "ready") =>
         /\ dbTour.transcript \in {"segments", "empty_list"}
         /\ dbTour.content \in {"empty", "blank"} => dbTour.transcript = "empty_list"

\* a ready tour whose route was infeasible, one of whose stops could not be
\* geocoded and whose other stop was saved
C21_Witness ==
    /\ pc = "done"
    /\ dbTour.exists
    /\ dbTour.status = "ready"
    /\ stopStage.feasibility = "infeasible"
    /\ content_data.walkable_stops = 2
    /\ Len(dbTour.walkable_stops) = 1

\* C24: once delete_tour has succeeded the row is gone and the cache holds no
\* audio entry of the tour, also when the background execution finishes its
\* synthesis after the deletion.
C24_DeletedTourHasNoAudio ==
    deleted => (~dbTour.exists /\ ~audioCache)

\* the synthesis stage has begun: generate_audio was called, or the stage has
\* ended without a call (content that is too long)
SynthesisBegun == ttsCalls > 0 \/ ttsResult # "pending"

\* C28: the stages of one background execution run in sequence: the
\* content_ready checkpoint is persisted before the first geocoding call; all
\* geocoding calls (one per stop of the content) are over, and the stop stage
\* is left, when the synthesis begins; ready is persisted only after the
\* synthesis has ended and the transcript was generated.
C28_StagesInSequence ==
    /\ geocodeCalls > 0 => "content_ready" \in RangeOf(statusLog)
    /\ pc \in {"geocode_stop", "save_walkable_stops"} => ~SynthesisBegun
    /\ SynthesisBegun =>
         /\ geocodeCalls = content_data.walkable_stops
         /\ pc \in {"cache_audio", "final_persist", "outer_except", "done"}
    /\ "ready" \in RangeOf(statusLog) =>
         /\ ttsResult # "pending"
         /\ transcript_segments # "none"
         /\ pc \in {"outer_except", "done"}

\* C40: delete_tour is all-or-nothing for the cached audio: when the call
\* ends and the tour's row still exists (the delete or the commit raised), an
\* audio entry that was cached when the call began is still cached.
C40_DeleteAllOrNothing ==
    [][(deletePc = "cache_deleted" /\ deletePc' = "idle" /\ dbTour'.exists)
          => (cachedBeforeDelete => audioCache')]_vars

(***************************************************************************)
(* TourService._truncate_for_tts as a function of the text, applied once   *)
(* and then to its own result.  The limit max_len is scaled down; a text   *)
(* is a run of letters followed by any ending over a letter, '.' and '!'.  *)
(***************************************************************************)
\* max_len, the character limit (4000 in the code)
TtsMaxLen == 15
\* longest free ending of a text
MaxEnding == 6

RECURSIVE Endings(_)
Endings(n) ==
    IF n = 0 THEN {<<>>}
    ELSE Endings(n - 1) \cup
         { Append(t, c) : t \in { u \in Endings(n - 1) : Len(u) = n - 1 },
                          c \in {"a", ".", "!"} }

\* texts shorter than, as long as and longer than the limit
TtsTexts == { [i \in 1..(TtsMaxLen - 4) |-> "a"] \o t : t \in Endings(MaxEnding) }

TruncateForTts_HardCut(text) ==
    SubSeq(text, 1, IF Len(text) < TtsMaxLen THEN Len(text) ELSE TtsMaxLen)

\* _truncate_for_tts(text)
TruncateForTts(text) ==
    LET max_len == TtsMaxLen
        t == SubSeq(text, 1, IF Len(text) < max_len THEN Len(text) ELSE max_len)
        last_period == PyRFind(t, ".")
    IN IF Len(text) > max_len /\ last_period > (max_len * 8) \div 10
       THEN SubSeq(t, 1, last_period + 1)
       ELSE t

InitTruncate ==
    /\ ttsText \in TtsTexts
    /\ ttsOnce = <<>>
    /\ ttsTwice = <<>>
    /\ ttsPc = "start"
    /\ IdleExcept("truncate")

Truncate ==
    /\ ttsPc = "start"
    /\ ttsOnce' = TruncateForTts(ttsText)
    /\ ttsPc' = "once"
    /\ UNCHANGED <<ttsText, ttsTwice, notTruncateVars>>

TruncateAgain ==
    /\ ttsPc = "once"
    /\ ttsTwice' = TruncateForTts(ttsOnce)
    /\ ttsPc' = "twice"
    /\ UNCHANGED <<ttsText, ttsOnce, notTruncateVars>>

NextTruncate ==
    \/ Truncate
    \/ TruncateAgain

SpecTruncate == InitTruncate /\ [][NextTruncate]_<<truncateVars, notTruncateVars>>

\* the first TtsMaxLen characters of the text
TtsSlice == SubSeq(ttsText, 1, TtsMaxLen)

\* the positions (from 0) in the final 20 % of the slice at which a
\* character of `set` stands
LateTerminators(set) ==
    { i \in 0..(TtsMaxLen - 1) : i * 10 > TtsMaxLen * 8 /\ TtsSlice[i + 1] \in set }

\* what holds of every result however the cut is chosen: a prefix of the
\* text of at most the limit, the text itself if it is short enough, and
\* the same again when truncated a second time
TruncationFrame ==
    /\ ttsPc \in {"once", "twice"} =>
         /\ IsPrefixOf(ttsOnce, ttsText)
         /\ Len(ttsOnce) <= TtsMaxLen
         /\ Len(ttsText) <= TtsMaxLen => ttsOnce = ttsText
    /\ ttsPc = "twice" => ttsTwice = ttsOnce

\* C36 as stated: a text longer than the limit with a sentence terminator
\* ('.', '!' or '?') in the final 20 % of the slice is cut just after the
\* last such terminator.
C36_CutAfterLastTerminator ==
    /\ TruncationFrame
    /\ (ttsPc \in {"once", "twice"} /\ Len(ttsText) > TtsMaxLen
          /\ LateTerminators({".", "!", "?"}) # {}) =>
         ttsOnce = SubSeq(TtsSlice, 1, MaxOf(LateTerminators({".", "!", "?"})) + 1)

\* C36, amended: the result is a prefix of the text of at most the limit,
\* the text itself when it is not longer than the limit, and the same when
\* truncated again; a longer text with a period in the final 20 % of the
\* slice is cut just after the last period, and any other longer text is cut
\* at the limit, whatever '!' or '?' it contains.
C36_CutAfterLastPeriod ==
    /\ TruncationFrame
    /\ (ttsPc \in {"once", "twice"} /\ Len(ttsText) > TtsMaxLen) =>
         IF LateTerminators({"."}) # {}
         THEN ttsOnce = SubSeq(TtsSlice, 1, MaxOf(LateTerminators({"."})) + 1)
         ELSE ttsOnce = TtsSlice

\* a long text whose slice ends in ".!" was cut after the period and
\* truncated again
C36_Witness ==
    /\ ttsPc = "twice"
    /\ Len(ttsText) > TtsMaxLen
    /\ ttsText[TtsMaxLen - 1] = "."
    /\ ttsText[TtsMaxLen] = "!"
    /\ Len(ttsOnce) = TtsMaxLen - 1
    /\ ttsTwice = ttsOnce

(***************************************************************************)
(* The error description of a tour: _set_tour_error on the content failure *)
(* path and the outer except of _generate_tour_content_background.  Of a   *)
(* message only its length is kept.                                        *)
(***************************************************************************)
\* len(str(e)) of the exceptions that reach the two handlers
ExceptionLengths == {0, 40, 236, 237, 244, 245, 255, 300, 1000}

\* message[:255]
MaxDescription == 255

\* len("LLM error: ") and len("Generation failed: ")
LlmErrorPrefix == 11

GenerationFailedPrefix == 19

\* len(message[:n])
Truncated(length, n) == IF length <= n THEN length ELSE n

\* the row before the failure; description None has length 0
ErrorRows ==
    [exists : BOOLEAN, status : {"generating", "content_ready"}, description : {0}]

InitError ==
    /\ errRow \in ErrorRows
    /\ excLen = 0
    /\ errPc = "running"
    /\ IdleExcept("error")

\* generate_tour_content raises while the tour is generating
ContentGenerationRaises ==
    /\ errPc = "running"
    /\ errRow.status = "generating"
    /\ \E n \in ExceptionLengths : excLen' = n
    /\ errPc' = "set_tour_error"
    /\ UNCHANGED <<errRow, notErrorVars>>

\* _set_tour_error(tour_id, f"LLM error: {str(e)}"); a failure of its own
\* commit propagates to the outer except
SetTourErrorDescription ==
    /\ errPc = "set_tour_error"
    /\ \/ /\ errRow' = IF errRow.exists
                       THEN [errRow EXCEPT
                               !.status = "error",
                               !.description = Truncated(LlmErrorPrefix + excLen,
                                                         MaxDescription)]
                       ELSE errRow
          /\ errPc' = "done"
          /\ UNCHANGED excLen
       \/ /\ \E n \in ExceptionLengths : excLen' = n
          /\ errPc' = "outer_except"
          /\ UNCHANGED errRow
    /\ UNCHANGED notErrorVars

\* any other statement of the try block raises
UnexpectedException ==
    /\ errPc = "running"
    /\ \E n \in ExceptionLengths : excLen' = n
    /\ errPc' = "outer_except"
    /\ UNCHANGED <<errRow, notErrorVars>>

\* outer except: tour.description = f"Generation failed: {str(e)}"; a failure
\* of this update is only logged
OuterExceptDescription ==
    /\ errPc = "outer_except"
    /\ \/ errRow' = IF errRow.exists
                    THEN [errRow EXCEPT
                            !.status = "error",
                            !.description = GenerationFailedPrefix + excLen]
                    ELSE errRow
       \/ UNCHANGED errRow
    /\ errPc' = "done"
    /\ UNCHANGED <<excLen, notErrorVars>>

NextError ==
    \/ ContentGenerationRaises
    \/ SetTourErrorDescription
    \/ UnexpectedException
    \/ OuterExceptDescription

SpecError == InitError /\ [][NextError]_<<errorVars, notErrorVars>>

\* C35: a tour in status error has a description of at most 255 characters,
\* whether _set_tour_error or the outer except set the status.
C35_ErrorDescriptionShort ==
    errRow.status = "error" => errRow.description <= 255

(***************************************************************************)
(* AIService.generate_audio with its cache.  Calls are made one after the  *)
(* other; an entry of the cache can expire at any time.  The two md5        *)
(* digests are taken as injective, so a key is the dictionary that is       *)
(* hashed, with the text in the place of its digest.  The synthesis         *)
(* provider is free to return different bytes for the same request.         *)
(***************************************************************************)
\* calls of generate_audio
MaxSpeechCalls == 3

SpeechTexts == {"Hello world", "Bonjour"}

\* the voice argument; "" is a call without a voice (None)
SpeechVoices == {"", "alloy", "nova"}

\* settings.OPENAI_TTS_VOICE
DefaultVoice == "alloy"

\* settings.OPENAI_TTS_MODEL
TtsModel == "tts-1"

\* speeds in tenths
SpeechSpeeds == {10, 12}

\* response.content of a successful synthesis
AudioBytes == {"mp3-a", "mp3-b"}

\* base64.b64encode(audio_data).decode('utf-8') and base64.b64decode
B64Encode(data) == <<"b64", data>>

B64Decode(audio_b64) == audio_b64[2]

\* voice = voice or settings.OPENAI_TTS_VOICE
VoiceInEffect(voice) == IF voice = "" THEN DefaultVoice ELSE voice

\* AIService._create_audio_cache_key
CreateAudioCacheKey_NoVoice(speech_text, voice, speed) ==
    [text_hash |-> speech_text, voice |-> DefaultVoice, speed |-> speed, model |-> TtsModel]

CreateAudioCacheKey(speech_text, voice, speed) ==
    [text_hash |-> speech_text, voice |-> voice, speed |-> speed, model |-> TtsModel]

SpeechKeys ==
    { CreateAudioCacheKey(t, VoiceInEffect(v), s) :
        t \in SpeechTexts, v \in SpeechVoices, s \in SpeechSpeeds }

NoSpeechCall ==
    [pc |-> "idle", speech_text |-> "", voice |-> "", speed |-> 0, cache_key |-> <<>>,
     audio_data |-> "", returned |-> "", raised |-> FALSE]

\* an absent entry; written_by keeps the call that wrote a present one
NoSpeechEntry == [audio_b64 |-> <<>>, written_by |-> NoSpeechCall]

\* if cached_audio_b64:
SpeechLive(entry) == entry.audio_b64 # <<>>

InitSpeech ==
    /\ speechCache = [k \in SpeechKeys |-> NoSpeechEntry]
    /\ speechCall = NoSpeechCall
    /\ speechStats = [calls |-> 0, provider_calls |-> 0, cache_hits |-> 0, usage_records |-> 0]
    /\ IdleExcept("speech")

\* generate_audio(text, voice, speed) is called: the voice is defaulted and
\* the key is computed
AiGenerateAudio ==
    /\ speechCall.pc \in {"idle", "done"}
    /\ speechStats.calls < MaxSpeechCalls
    /\ \E t \in SpeechTexts, v \in SpeechVoices, s \in SpeechSpeeds :
         speechCall' = [NoSpeechCall EXCEPT
                          !.pc = "cache_get", !.speech_text = t, !.voice = v, !.speed = s,
                          !.cache_key = CreateAudioCacheKey(t, VoiceInEffect(v), s)]
    /\ speechStats' = [speechStats EXCEPT !.calls = @ + 1]
    /\ UNCHANGED <<speechCache, notSpeechVars>>

\* cached_audio_b64 = await self.cache.get(cache_key); on a hit the hit is
\* recorded and the decoded entry returned
AudioCacheGet ==
    /\ speechCall.pc = "cache_get"
    /\ LET cached == speechCache[speechCall.cache_key]
       IN IF SpeechLive(cached)
          THEN /\ speechStats' = [speechStats EXCEPT !.cache_hits = @ + 1]
               /\ speechCall' = [speechCall EXCEPT
                                   !.pc = "done", !.returned = B64Decode(cached.audio_b64)]
          ELSE /\ speechCall' = [speechCall EXCEPT !.pc = "synthesize"]
               /\ UNCHANGED speechStats
    /\ UNCHANGED <<speechCache, notSpeechVars>>

\* openai_client.audio.speech.create returns audio, or raises and the call
\* ends with AIServiceError
SynthesizeSpeech ==
    /\ speechCall.pc = "synthesize"
    /\ speechStats' = [speechStats EXCEPT !.provider_calls = @ + 1]
    /\ \/ \E response_content \in AudioBytes :
            speechCall' = [speechCall EXCEPT !.pc = "cache_set", !.audio_data = response_content]
       \/ speechCall' = [speechCall EXCEPT !.pc = "done", !.raised = TRUE]
    /\ UNCHANGED <<speechCache, notSpeechVars>>

\* the audio is cached for 30 days, the usage recorded and the audio returned
AudioCacheSet ==
    /\ speechCall.pc = "cache_set"
    /\ speechCall' = [speechCall EXCEPT !.pc = "done", !.returned = speechCall.audio_data]
    /\ speechCache' = [speechCache EXCEPT
                         ![speechCall.cache_key] =
                             [audio_b64 |-> B64Encode(speechCall.audio_data),
                              written_by |-> speechCall']]
    /\ speechStats' = [speechStats EXCEPT !.usage_records = @ + 1]
    /\ UNCHANGED notSpeechVars

\* the ttl of an entry runs out
AudioEntryExpires ==
    /\ \E k \in SpeechKeys :
         /\ SpeechLive(speechCache[k])
         /\ speechCache' = [speechCache EXCEPT ![k] = NoSpeechEntry]
    /\ UNCHANGED <<speechCall, speechStats, notSpeechVars>>

NextSpeech ==
    \/ AiGenerateAudio
    \/ AudioCacheGet
    \/ SynthesizeSpeech
    \/ AudioCacheSet
    \/ AudioEntryExpires

SpecSpeech == InitSpeech /\ [][NextSpeech]_<<speechVars, notSpeechVars>>

\* the entries that have not expired and were written by a successful call
\* with the text and speed of the running call and a voice that same(,) accepts
EntriesFor(same(_, _)) ==
    { k \in SpeechKeys :
        /\ SpeechLive(speechCache[k])
        /\ speechCache[k].written_by.speech_text = speechCall.speech_text
        /\ speechCache[k].written_by.speed = speechCall.speed
        /\ same(speechCache[k].written_by.voice, speechCall.voice) }

\* the lookup of a call against the entries written for its text, voice and
\* speed: with such an entry the call returns the bytes its writer returned,
\* calls no provider and records one hit; without one it records no hit and
\* goes on to the synthesis.  An entry appears only when a successful
\* synthesis is cached, and a failed synthesis leaves the cache as it is.
AudioCacheContract(same(_, _)) ==
    /\ (speechCall.pc = "cache_get" /\ speechCall' # speechCall) =>
         IF EntriesFor(same) # {}
         THEN /\ speechCall'.pc = "done"
              /\ ~speechCall'.raised
              /\ \E k \in EntriesFor(same) :
                   speechCall'.returned = speechCache[k].written_by.returned
              /\ speechStats'.provider_calls = speechStats.provider_calls
              /\ speechStats'.cache_hits = speechStats.cache_hits + 1
         ELSE /\ speechCall'.pc = "synthesize"
              /\ speechStats'.cache_hits = speechStats.cache_hits
    /\ \A k \in SpeechKeys :
         (~SpeechLive(speechCache[k]) /\ SpeechLive(speechCache'[k])) =>
             /\ speechCall.pc = "cache_set"
             /\ ~speechCall'.raised
    /\ (~speechCall.raised /\ speechCall'.raised) => speechCache' = speechCache

SameVoiceArgument(v1, v2) == v1 = v2

SameVoiceInEffect(v1, v2) ==
    (IF v1 = "" THEN DefaultVoice ELSE v1) = (IF v2 = "" THEN DefaultVoice ELSE v2)

MaxRecords == 1

UsageTasks == {"task1", "task2"}

\* units_used of a call
UnitsUsed == {100, 250}

\* usage:daily:{today}, usage:monthly:{month}, usage:hourly:{hour}
UsageKeys == <<"daily", "monthly", "hourly">>

CacheBackends == {"memory", "redis"}

\* the counter _update_usage_counter starts from when the key is absent
NoUsage == [total_requests |-> 0, total_units |-> 0]

NoTask == [pc |-> "idle", key |-> 0, usage_data |-> NoUsage, units_used |-> 0, made |-> 0]

\* usage_data["total_requests"] += 1; usage_data["total_units"] += units_used
AddUsage(usage_data, units_used) ==
    [total_requests |-> usage_data.total_requests + 1,
     total_units |-> usage_data.total_units + units_used]

InitUsage ==
    /\ usageBackend \in CacheBackends
    /\ usageStore = [k \in 1..Len(UsageKeys) |-> NoUsage]
    /\ usageTasks = [t \in UsageTasks |-> NoTask]
    /\ usageCompleted = NoUsage
    /\ IdleExcept("usage")

\* record_api_usage on the in-memory backend: the three counters are
\* updated without any other task running in between
RecordApiUsageInMemory ==
    /\ usageBackend = "memory"
    /\ \E t \in UsageTasks, units_used \in UnitsUsed :
         /\ usageTasks[t].pc = "idle"
         /\ usageTasks[t].made < MaxRecords
         /\ usageStore' = [k \in 1..Len(UsageKeys) |-> AddUsage(usageStore[k], units_used)]
         /\ usageTasks' = [usageTasks EXCEPT ![t].made = @ + 1]
         /\ usageCompleted' = AddUsage(usageCompleted, units_used)
    /\ UNCHANGED <<usageBackend, notUsageVars>>

\* record_api_usage on Redis begins: the first counter is next
RecordApiUsage ==
    /\ usageBackend = "redis"
    /\ \E t \in UsageTasks, units_used \in UnitsUsed :
         /\ usageTasks[t].pc = "idle"
         /\ usageTasks[t].made < MaxRecords
         /\ usageTasks' = [usageTasks EXCEPT ![t] =
                             [@ EXCEPT !.pc = "read", !.key = 1,
                                       !.units_used = units_used]]
    /\ UNCHANGED <<usageBackend, usageStore, usageCompleted, notUsageVars>>

\* usage_data = await self.cache.get_json(key) or {...}
ReadUsageCounter ==
    /\ \E t \in UsageTasks :
         /\ usageTasks[t].pc = "read"
         /\ usageTasks' = [usageTasks EXCEPT ![t] =
                             [@ EXCEPT !.pc = "write",
                                       !.usage_data = usageStore[usageTasks[t].key]]]
    /\ UNCHANGED <<usageBackend, usageStore, usageCompleted, notUsageVars>>

\* the totals are updated and written back with set_json; after the third
\* counter the call is complete
WriteUsageCounter ==
    /\ \E t \in UsageTasks :
         LET task == usageTasks[t]
             last == task.key = Len(UsageKeys)
         IN /\ task.pc = "write"
            /\ usageStore' = [usageStore EXCEPT
                                ![task.key] = AddUsage(task.usage_data, task.units_used)]
            /\ usageTasks' = [usageTasks EXCEPT ![t] =
                                IF last
                                THEN [NoTask EXCEPT !.made = task.made + 1]
                                ELSE [task EXCEPT !.pc = "read", !.key = task.key + 1,
                                                  !.usage_data = NoUsage]]
            /\ usageCompleted' = IF last THEN AddUsage(usageCompleted, task.units_used)
                                 ELSE usageCompleted
    /\ UNCHANGED <<usageBackend, notUsageVars>>

NextUsage ==
    \/ RecordApiUsageInMemory
    \/ RecordApiUsage
    \/ ReadUsageCounter
    \/ WriteUsageCounter

SpecUsage == InitUsage /\ [][NextUsage]_<<usageVars, notUsageVars>>

\* C38: when no call of record_api_usage is in progress, the daily, the
\* monthly and the hourly counter each show as total_requests the number of
\* the completed calls and as total_units the sum of their units.
C38_NoUsageLost ==
    (\A t \in UsageTasks : usageTasks[t].pc = "idle") =>
        \A k \in 1..Len(UsageKeys) : usageStore[k] = usageCompleted

(***************************************************************************)
(* The endpoints of routers/tours.py on the tour followed by the pipeline: *)
(* get_tour, get_tour_status, get_tour_audio, regenerate_tour_audio and    *)
(* delete_tour of TourService, and the public audio route.  They run       *)
(* beside the background execution of a tour whose content is found in the *)
(* content cache.                                                          *)
(***************************************************************************)
Callers == {"owner", "other"}

\* the entries another generation left in the content cache: a tour without
\* stops, one with empty title and content, one whose content is null
ApiCachedContents ==
    { GenerateTourContentWithProvider(
          "openai", [raised |-> FALSE, err |-> "none", text |-> text]).data :
        text \in { <<"{", "Tt", "Ct", "W0", "D", "}">>,
                   <<"{", "Te", "Ce", "}">>,
                   <<"{", "Tt", "Cn", "}">> } }

\* the variables of the pipeline that no endpoint but delete_tour writes
pipelineRest ==
    <<preferred, contentCache, pc, content_data, statusLog, dbFailures, dbFailed,
      deleted, deletePc, cachedBeforeDelete, aiVars, stageVars>>

NoPoll == [status |-> "none", progress |-> 0, has_audio |-> FALSE, audio_url |-> "none"]

NoSnapshot == [status |-> "none", title |-> "none", content |-> "none",
               audio_url |-> "none", cached |-> FALSE]

NoCall == [op |-> "none", caller |-> "none", outcome |-> "none", returned |-> "nothing",
           tts |-> "none", pre |-> NoSnapshot, post |-> NoSnapshot]

NoAudioRequest == [active |-> FALSE, status |-> "none", content |-> "none", audio_url |-> "none"]

\* what a call sees of the tour
Snapshot(row, cached) ==
    [status |-> row.status, title |-> row.title, content |-> row.content,
     audio_url |-> row.audio_url, cached |-> cached]

\* get_tour: select ... where Tour.id == tour_id and Tour.user_id == user.id;
\* NoRow stands for TourNotFoundError
GetTourRow(row, caller) ==
    IF row.exists /\ caller = "owner" THEN row ELSE NoRow

CalculateProgress_Regress(status) ==
    CASE status = "generating" -> 50
      [] status = "content_ready" -> 30
      [] status = "ready" -> 100
      [] OTHER -> 0

\* _calculate_progress: progress_map.get(status, 0)
CalculateProgress(status) ==
    CASE status = "generating" -> 50
      [] status = "content_ready" -> 80
      [] status = "ready" -> 100
      [] status = "error" -> 0
      [] OTHER -> 0

\* bool(value) of a text value of the row
Truthy(value) == value \notin {"none", "empty", "null"}

\* request.voice if hasattr(request, "voice") ...: get_tour_audio and
\* regenerate_tour_audio have no name `request` in scope, so evaluating the
\* voice argument raises NameError
RequestVoiceRaises_Never == FALSE

RequestVoiceRaises == TRUE

InitApi ==
    /\ preferred = "openai"
    /\ contentCache \in ApiCachedContents
    /\ audioCache = FALSE
    /\ dbTour = NoRow
    /\ pc = "idle"
    /\ content = NoData
    /\ primaryError = <<>>
    /\ fallbackError = <<>>
    /\ content_data = NoData
    /\ stopIndex = 0
    /\ geocoded_stops = <<>>
    /\ audio_data = "none"
    /\ audio_url = "none"
    /\ transcript_segments = "none"
    /\ providerCalls = <<>>
    /\ aiResult = "pending"
    /\ aiError = <<>>
    /\ geocodeCalls = 0
    /\ ttsCalls = 0
    /\ ttsResult = "pending"
    /\ stopStage = NoStopStage
    /\ deletePc = "idle"
    /\ statusLog = <<>>
    /\ dbFailures = 0
    /\ dbFailed = FALSE
    /\ deleted = FALSE
    /\ cachedBeforeDelete = FALSE
    /\ polls = [previous |-> NoPoll, latest |-> NoPoll]
    /\ apiCall = NoCall
    /\ audioRequest = NoAudioRequest
    /\ IdleExcept("api")

\* get_tour_status by the owner: the row is re-read and the response built
GetTourStatus ==
    /\ GetTourRow(dbTour, "owner") # NoRow
    /\ LET tour == GetTourRow(dbTour, "owner")
           status_response == [status |-> tour.status,
                               progress |-> CalculateProgress(tour.status),
                               has_audio |-> Truthy(tour.audio_url),
                               audio_url |-> tour.audio_url]
       IN /\ polls' = [previous |-> polls.latest, latest |-> status_response]
          /\ apiCall' = [NoCall EXCEPT !.op = "get_tour_status", !.caller = "owner",
                                       !.outcome = "ok", !.returned = "status",
                                       !.pre = Snapshot(dbTour, audioCache),
                                       !.post = Snapshot(dbTour, audioCache)]
    /\ UNCHANGED <<dbTour, audioCache, audioRequest, pipelineRest, notApiVars>>

\* get_tour by the owner returns the record
GetTour ==
    /\ LET tour == GetTourRow(dbTour, "owner")
       IN apiCall' = [NoCall EXCEPT !.op = "get_tour", !.caller = "owner",
                                    !.outcome = IF tour = NoRow THEN "not_found" ELSE "ok",
                                    !.returned = IF tour = NoRow THEN "nothing" ELSE "record",
                                    !.pre = Snapshot(dbTour, audioCache),
                                    !.post = Snapshot(dbTour, audioCache)]
    /\ UNCHANGED <<dbTour, audioCache, polls, audioRequest, pipelineRest, notApiVars>>

\* any authenticated endpoint called by a user who is not the owner: get_tour
\* finds no row for that user and raises TourNotFoundError, which
\* get_tour_status wraps into a TourServiceError
OtherUserCalls ==
    /\ \E op \in {"get_tour", "get_tour_status", "get_tour_audio",
                  "regenerate_tour_audio", "delete_tour"} :
         LET tour == GetTourRow(dbTour, "other")
         IN apiCall' = [NoCall EXCEPT !.op = op, !.caller = "other",
                                      !.outcome = IF tour # NoRow THEN "ok"
                                                  ELSE IF op = "get_tour_status"
                                                       THEN "service_error"
                                                  ELSE "not_found",
                                      !.returned = IF tour = NoRow THEN "nothing" ELSE "record",
                                      !.pre = Snapshot(dbTour, audioCache),
                                      !.post = Snapshot(dbTour, audioCache)]
    /\ UNCHANGED <<dbTour, audioCache, polls, audioRequest, pipelineRest, notApiVars>>

\* GET /tours/{tour_id}/audio: no authentication, the cached audio is streamed
GetTourAudioPublic ==
    /\ \E caller \in Callers :
         apiCall' = [NoCall EXCEPT !.op = "get_tour_audio_public", !.caller = caller,
                                   !.outcome = IF audioCache THEN "ok" ELSE "not_found",
                                   !.returned = IF audioCache THEN "audio" ELSE "nothing",
                                   !.pre = Snapshot(dbTour, audioCache),
                                   !.post = Snapshot(dbTour, audioCache)]
    /\ UNCHANGED <<dbTour, audioCache, polls, audioRequest, pipelineRest, notApiVars>>

\* get_tour_audio by the owner, up to the cache lookup: get_tour, then the
\* checks of the status and of the audio reference
GetTourAudioStart ==
    /\ ~audioRequest.active
    /\ LET tour == GetTourRow(dbTour, "owner")
           outcome == IF tour = NoRow THEN "not_found"
                      ELSE IF tour.status \notin {"ready", "content_ready"} THEN "not_ready"
                      ELSE IF ~Truthy(tour.audio_url) THEN "no_audio"
                      ELSE "lookup"
       IN IF outcome = "lookup"
          THEN /\ audioRequest' = [active |-> TRUE, status |-> tour.status,
                                   content |-> tour.content, audio_url |-> tour.audio_url]
               /\ UNCHANGED apiCall
          ELSE /\ apiCall' = [NoCall EXCEPT !.op = "get_tour_audio", !.caller = "owner",
                                            !.outcome = outcome,
                                            !.pre = Snapshot(dbTour, audioCache),
                                            !.post = Snapshot(dbTour, audioCache)]
               /\ UNCHANGED audioRequest
    /\ UNCHANGED <<dbTour, audioCache, polls, pipelineRest, notApiVars>>

\* get_tour_audio from the cache lookup on: a cached entry is returned; a
\* missing one is to be synthesized again from the content, stored and
\* returned, and the reference written if the row has none
GetTourAudioFetch ==
    /\ audioRequest.active
    /\ \E tts \in {"ok", "error"} :
         LET regenerate == ~audioCache /\ Truthy(audioRequest.content)
                              /\ ~RequestVoiceRaises /\ tts = "ok"
             outcome == IF audioCache \/ regenerate THEN "ok"
                        ELSE IF ~Truthy(audioRequest.content) THEN "no_content"
                        ELSE "regeneration_failed"
             write == regenerate /\ ~Truthy(audioRequest.audio_url) /\ dbTour.exists
         IN /\ audioCache' = (audioCache \/ regenerate)
            /\ dbTour' = IF write THEN [dbTour EXCEPT !.audio_url = "url"] ELSE dbTour
            /\ apiCall' = [op |-> "get_tour_audio", caller |-> "owner",
                           outcome |-> outcome,
                           returned |-> IF outcome = "ok" THEN "audio" ELSE "nothing",
                           tts |-> tts,
                           pre |-> [status |-> audioRequest.status, title |-> dbTour.title,
                                    content |-> audioRequest.content,
                                    audio_url |-> audioRequest.audio_url,
                                    cached |-> audioCache],
                           post |-> Snapshot(dbTour', audioCache')]
    /\ audioRequest' = NoAudioRequest
    /\ UNCHANGED <<polls, pipelineRest, notApiVars>>

\* regenerate_tour_audio by the owner: get_tour, synthesis from the content,
\* cache.set, and the reference written if the row has none
RegenerateTourAudio ==
    /\ \E tts \in {"ok", "error"} :
         LET tour == GetTourRow(dbTour, "owner")
             outcome == IF tour = NoRow THEN "not_found"
                        ELSE IF ~Truthy(tour.content) THEN "no_content"
                        ELSE IF RequestVoiceRaises \/ tts # "ok" THEN "failed"
                        ELSE "ok"
             write == outcome = "ok" /\ ~Truthy(tour.audio_url)
         IN /\ audioCache' = (audioCache \/ outcome = "ok")
            /\ dbTour' = IF write THEN [dbTour EXCEPT !.audio_url = "url"] ELSE dbTour
            /\ apiCall' = [op |-> "regenerate_tour_audio", caller |-> "owner",
                           outcome |-> outcome, returned |-> "nothing", tts |-> tts,
                           pre |-> Snapshot(dbTour, audioCache),
                           post |-> Snapshot(dbTour', audioCache')]
    /\ UNCHANGED <<polls, audioRequest, pipelineRest, notApiVars>>

\* the cached audio entry is lost: its TTL of 30 days has passed, or the
\* cache was emptied
AudioExpires ==
    /\ audioCache
    /\ audioCache' = FALSE
    /\ UNCHANGED <<dbTour, polls, apiCall, audioRequest, pipelineRest, notApiVars>>

NextApi ==
    \/ GenerateTour
    \/ CacheGet
    \/ SetTourError
    \/ SaveContent
    \/ GenerateAudio
    \/ CacheAudio
    \/ FinalPersist
    \/ OuterExcept
    \/ DeleteTourCache
    \/ DeleteTourCommit
    \/ GetTourStatus
    \/ GetTour
    \/ OtherUserCalls
    \/ GetTourAudioPublic
    \/ GetTourAudioStart
    \/ GetTourAudioFetch
    \/ RegenerateTourAudio
    \/ AudioExpires

SpecApi == InitApi /\ [][NextApi]_<<vars, apiVars, notApiVars>>

Statuses == {"generating", "content_ready", "ready", "error"}

\* C22: a status response carries progress 50 for generating, 80 for
\* content_ready, 100 for ready and 0 for error or any other status, and
\* has_audio exactly when the row's audio reference is non-empty; from one
\* poll of the owner to the next the progress does not decrease, except that
\* it drops to 0 when the tour has entered error.
C22_StatusProgress ==
    /\ polls.latest # NoPoll =>
         /\ polls.latest.status = "generating" => polls.latest.progress = 50
         /\ polls.latest.status = "content_ready" => polls.latest.progress = 80
         /\ polls.latest.status = "ready" => polls.latest.progress = 100
         /\ polls.latest.status = "error" => polls.latest.progress = 0
         /\ polls.latest.status \notin Statuses => polls.latest.progress = 0
         /\ polls.latest.has_audio <=> polls.latest.audio_url # "none"
    /\ polls.previous # NoPoll =>
         \/ polls.latest.progress >= polls.previous.progress
         \/ polls.latest.progress = 0 /\ polls.latest.status = "error"

\* a poll that saw the checkpoint, followed by one that saw the ready tour
\* with its audio
C22_Witness ==
    /\ polls.previous.status = "content_ready"
    /\ polls.previous.progress = 80
    /\ ~polls.previous.has_audio
    /\ polls.latest.status = "ready"
    /\ polls.latest.progress = 100
    /\ polls.latest.has_audio

\* C23: a call succeeds only for the owner; a caller who is not the owner is
\* refused by every endpoint and obtains neither the record, nor the status,
\* nor the audio of the tour.
C23_OwnerOnly ==
    apiCall.caller = "other" =>
        /\ apiCall.outcome \in {"not_found", "service_error"}
        /\ apiCall.returned = "nothing"

C26_LazyRegeneration ==
    ( /\ apiCall.op = "get_tour_audio"
      /\ apiCall.caller = "owner"
      /\ apiCall.pre.status \in {"ready", "content_ready"}
      /\ apiCall.pre.audio_url # "none"
      /\ apiCall.pre.content \notin {"none", "empty", "null"}
      /\ ~apiCall.pre.cached
      /\ apiCall.tts = "ok" ) =>
        /\ apiCall.outcome = "ok"
        /\ apiCall.returned = "audio"
        /\ apiCall.post.cached

\* C27: regenerate_tour_audio by the owner, for a tour with content, when the
\* synthesis provider succeeds: the call succeeds, the audio is in the cache
\* under the tour's audio key, the tour has an audio reference afterwards,
\* and its status, title and content are as before.
C27_RegenerateSucceeds ==
    ( /\ apiCall.op = "regenerate_tour_audio"
      /\ apiCall.caller = "owner"
      /\ apiCall.outcome # "not_found"
      /\ apiCall.pre.content \notin {"none", "empty", "null"}
      /\ apiCall.tts = "ok" ) =>
        /\ apiCall.outcome = "ok"
        /\ apiCall.post.cached
        /\ apiCall.post.audio_url # "none"
        /\ apiCall.post.status = apiCall.pre.status
        /\ apiCall.post.title = apiCall.pre.title
        /\ apiCall.post.content = apiCall.pre.content

(***************************************************************************)
(* InMemoryCache (cache_service.py): two dictionaries, _cache and _expiry, *)
(* and the clock datetime.now().  A dictionary is a function on the set of *)
(* its keys.  Time is counted in seconds.                                  *)
(***************************************************************************)
\* last value of the clock
MaxTime == 3

CacheKeys == {"k1", "k2"}
CacheValues == {"a", "b"}
\* ttl arguments: none, and two positive ones
CacheTtls == {0, 1, 2}

\* None, the result of get for a missing entry
NoValue == "None"

NoHistory == [live |-> FALSE, value |-> NoValue, at |-> 0, ttl |-> 0]

\* dict.pop(key, None)
Pop(dict, key) == [k \in (DOMAIN dict) \ {key} |-> dict[k]]

\* dict[key] = value
Put(dict, key, value) ==
    [k \in (DOMAIN dict) \cup {key} |-> IF k = key THEN value ELSE dict[k]]

\* InMemoryCache.get: the entry is expired when now is past its expiry
IsExpired(key) == key \in DOMAIN memExpiry /\ now > memExpiry[key]

\* the value get(key) returns
MemGetResult(key) ==
    IF key \in DOMAIN memCache
    THEN IF IsExpired(key) THEN NoValue ELSE memCache[key]
    ELSE NoValue

InitMem ==
    /\ memCache = <<>>
    /\ memExpiry = <<>>
    /\ now = 0
    /\ memHistory = [k \in CacheKeys |-> NoHistory]
    /\ lastOp = [op |-> "none", key |-> "none", result |-> NoValue]
    /\ IdleExcept("cache")

\* get(key): an expired entry is deleted and None is returned
MemGet ==
    \E key \in CacheKeys :
        /\ lastOp' = [op |-> "get", key |-> key, result |-> MemGetResult(key)]
        /\ IF key \in DOMAIN memCache /\ IsExpired(key)
           THEN /\ memCache' = Pop(memCache, key)
                /\ memExpiry' = Pop(memExpiry, key)
           ELSE UNCHANGED <<memCache, memExpiry>>
        /\ UNCHANGED <<now, memHistory, notCacheVars>>

\* set(key, value, ttl): the expiry is written only when ttl > 0
MemSet ==
    \E key \in CacheKeys, value \in CacheValues, ttl \in CacheTtls :
        /\ memCache' = Put(memCache, key, value)
        /\ memExpiry' = IF ttl > 0 THEN Put(memExpiry, key, now + ttl) ELSE memExpiry
        /\ memHistory' = [memHistory EXCEPT ![key] =
                            [live |-> TRUE, value |-> value, at |-> now, ttl |-> ttl]]
        /\ lastOp' = [op |-> "set", key |-> key, result |-> NoValue]
        /\ UNCHANGED <<now, notCacheVars>>

\* delete(key)
MemDelete ==
    \E key \in CacheKeys :
        /\ memCache' = Pop(memCache, key)
        /\ memExpiry' = Pop(memExpiry, key)
        /\ memHistory' = [memHistory EXCEPT ![key] = NoHistory]
        /\ lastOp' = [op |-> "delete", key |-> key, result |-> NoValue]
        /\ UNCHANGED <<now, notCacheVars>>

\* clear()
MemClear ==
    /\ memCache' = <<>>
    /\ memExpiry' = <<>>
    /\ memHistory' = [k \in CacheKeys |-> NoHistory]
    /\ lastOp' = [op |-> "clear", key |-> "none", result |-> NoValue]
    /\ UNCHANGED <<now, notCacheVars>>

\* a second passes
Tick ==
    /\ now < MaxTime
    /\ now' = now + 1
    /\ lastOp' = [op |-> "tick", key |-> "none", result |-> NoValue]
    /\ UNCHANGED <<memCache, memExpiry, memHistory, notCacheVars>>

NextMem ==
    \/ MemGet
    \/ MemSet
    \/ MemDelete
    \/ MemClear
    \/ Tick

SpecMem == InitMem /\ [][NextMem]_<<cacheVars, notCacheVars>>

\* C29: a value whose most recent set had TTL 0 is returned by every get until
\* the key is deleted, cleared or set again, whatever preceded that set.
C29_TtlZeroNeverExpires ==
    \A key \in CacheKeys :
        (memHistory[key].live /\ memHistory[key].ttl = 0) =>
            /\ MemGetResult(key) = memHistory[key].value
            /\ (lastOp.op = "get" /\ lastOp.key = key) =>
                   lastOp.result = memHistory[key].value

\* what get(key) is to return: the value of the most recent set that was not
\* followed by delete or clear and whose positive TTL has not elapsed
ExpectedValue(key) ==
    LET h == memHistory[key]
    IN IF h.live /\ (h.ttl <= 0 \/ now <= h.at + h.ttl) THEN h.value ELSE NoValue

\* C30: get(key) returns the value of the most recent set(key) unless that set
\* was followed by delete(key) or clear or its positive TTL has elapsed, and
\* None otherwise; an expired entry that was read is gone from the cache.
C30_GetReturnsLatestLiveSet ==
    /\ \A key \in CacheKeys : MemGetResult(key) = ExpectedValue(key)
    /\ lastOp.op = "get" =>
         /\ lastOp.result = ExpectedValue(lastOp.key)
         /\ lastOp.result = NoValue => lastOp.key \notin DOMAIN memCache
====
